---- MODULE Spec2Model ----
(***************************************************************************)
(* Model of the regulation-text pipeline of x2emb_Ground_Truth:            *)
(*   - src/source/main.py : clean_unwanted_lines, parse_text_to_structure  *)
(*                          and its inner loop process_remainder           *)
(*                          extract_text_from_pdf, convert_pdfs_to_json    *)
(*   - src/source/p.py    : the article-only parse_text_to_structure,      *)
(*                          VALID_LINE_PATTERN and is_valid_line           *)
(*   - src/chunking/mainKR.py, main.py : generate_chunks                   *)
(*   - src/source/p.py    : split_jomun_list_and_main_text                 *)
(*   - src/embeding/main.py : process_single_json                          *)
(*   - src/translated/NLLB/main.py  : translate_json_in_chunks             *)
(*   - src/translated/NLLB/main3.py : main and its two threads             *)
(*   - src/translated/Marian/main.py : translate_json_marian               *)
(* A Python str is a sequence of Unicode code points (naturals), so that   *)
(* ord(), str.isdigit(), str.strip() and the regular expressions are       *)
(* computed as the interpreter computes them.                              *)
(***************************************************************************)
EXTENDS Integers, Sequences, FiniteSets, TLC

----------------------------------------------------------------------------
(* Bounds of the model.                                                     *)

\* longest input text, in lines
MaxLines == 3

----------------------------------------------------------------------------
(* Code points.                                                             *)

\* the characters the sources name, by code point
Ch == [nl |-> 10, sp |-> 32, lpar |-> 40, rpar |-> 41, dot |-> 46,
       d0 |-> 48, d9 |-> 57,
       je |-> 51228,      \* U+C81C, the article marker
       jo |-> 51312,      \* U+C870, the article suffix
       ui |-> 51032,      \* U+C758, the sub-numbering suffix
       c1 |-> 9312, c9 |-> 9320, c20 |-> 9331,    \* U+2460, U+2468, U+2473
       c21 |-> 12881, c35 |-> 12895]              \* U+3251, U+325F

\* Python's None
None == [none |-> TRUE]

\* truth value of a dict-or-None: every dict the parser builds is non-empty
Truthy(x) == x # None

\* the 35 glyphs of VALID_HIGHER_ENUMS
VALID_HIGHER_ENUMS == (Ch.c1 .. Ch.c20) \cup (Ch.c21 .. Ch.c35)

\* "법제처"
MarkerA == <<48277, 51228, 52376>>
\* "국가법령정보센터"
MarkerB == <<44397, 44032, 48277, 47161, 51221, 48372, 49468, 53552>>
\* "Untitled Section"
UntitledTitle == <<85, 110, 116, 105, 116, 108, 101, 100, 32, 83, 101, 99, 116, 105, 111, 110>>

----------------------------------------------------------------------------
(* str operations.                                                          *)

\* str.isspace() for one character, over the characters of the model
IsSpace(c) == c \in {Ch.sp, Ch.nl, 9, 13}

\* s[i:] with a 0-based start, as a 1-based sequence
Drop(s, n) == IF n >= Len(s) THEN <<>> ELSE SubSeq(s, n + 1, Len(s))

\* s[:n]
Take(s, n) == IF n <= 0 THEN <<>> ELSE SubSeq(s, 1, IF n > Len(s) THEN Len(s) ELSE n)

RECURSIVE LStrip(_)
LStrip(s) == IF s # <<>> /\ IsSpace(Head(s)) THEN LStrip(Tail(s)) ELSE s

RECURSIVE RStrip(_)
RStrip(s) == IF s # <<>> /\ IsSpace(s[Len(s)]) THEN RStrip(Take(s, Len(s) - 1)) ELSE s

\* str.strip()
Strip(s) == RStrip(LStrip(s))

\* sub in s
Contains(s, sub) ==
    \E i \in 0 .. (Len(s) - Len(sub)) : SubSeq(s, i + 1, i + Len(sub)) = sub

\* str.isdigit() for one character: Numeric_Type Decimal or Digit.  Over the
\* characters of the model these are 0-9 and the circled digits one to nine
\* (circled ten and above are Numeric_Type Numeric)
IsDigitChar(c) == c \in (Ch.d0 .. Ch.d9) \/ c \in (Ch.c1 .. Ch.c9)

\* str.isdigit(): non-empty and every character a digit
IsDigit(s) == s # <<>> /\ \A i \in 1 .. Len(s) : IsDigitChar(s[i])

\* the class \d of module re: category Nd, here 0-9
ReDigit(c) == c \in (Ch.d0 .. Ch.d9)

\* length of the longest run of \d at the start of s
RECURSIVE DigitRun(_)
DigitRun(s) == IF s # <<>> /\ ReDigit(Head(s)) THEN 1 + DigitRun(Tail(s)) ELSE 0

\* text.split("\n")
RECURSIVE Split(_)
Split(s) ==
    IF \E i \in 1 .. Len(s) : s[i] = Ch.nl
    THEN LET i == CHOOSE k \in 1 .. Len(s) :
                      s[k] = Ch.nl /\ \A j \in 1 .. (k - 1) : s[j] # Ch.nl
         IN  <<Take(s, i - 1)>> \o Split(Drop(s, i))
    ELSE <<s>>

\* "\n".join(ls)
RECURSIVE Join(_)
Join(ls) ==
    IF ls = <<>> THEN <<>>
    ELSE IF Len(ls) = 1 THEN ls[1]
    ELSE ls[1] \o <<Ch.nl>> \o Join(Tail(ls))

----------------------------------------------------------------------------
(* Regular expressions of src/source/main.py and src/source/p.py.           *)

\* index of the first ")" of s after position from, 0 when there is none
FirstClose(s, from) ==
    IF \E k \in (from + 1) .. Len(s) : s[k] = Ch.rpar
    THEN CHOOSE k \in (from + 1) .. Len(s) :
             s[k] = Ch.rpar /\ \A j \in (from + 1) .. (k - 1) : s[j] # Ch.rpar
    ELSE 0

\* number of whitespace characters at the start of s (\s*)
RECURSIVE SpaceRun(_)
SpaceRun(s) == IF s # <<>> /\ IsSpace(Head(s)) THEN 1 + SpaceRun(Tail(s)) ELSE 0

\* The common shape of the two header patterns,
\*   main.py: ^제(\d+조(?:의\d+)?)\((.*?)\)
\*   p.py:    ^제\s*(\d+조(?:의\d+)?)\s*\((.*?)\)
\* ws says whether \s* is allowed after the marker and before "(".
\* The suffix group (?:의\d+)? is optional, not repeatable.  The result gives
\* the spans of group 1, of group 2 and match.end() of the part shown.
HeaderMatch(s, ws) ==
    LET w1     == IF ws THEN SpaceRun(Drop(s, 1)) ELSE 0
        n      == DigitRun(Drop(s, 1 + w1))
        jo     == 1 + w1 + n + 1
        hasJo  == s # <<>> /\ s[1] = Ch.je /\ n >= 1 /\ Len(s) >= jo /\ s[jo] = Ch.jo
        m      == IF hasJo /\ Len(s) > jo /\ s[jo + 1] = Ch.ui
                  THEN DigitRun(Drop(s, jo + 1)) ELSE 0
        numEnd == IF m >= 1 THEN jo + 1 + m ELSE jo
        w2     == IF ws THEN SpaceRun(Drop(s, numEnd)) ELSE 0
        open   == numEnd + w2 + 1
        hasOpen == hasJo /\ Len(s) >= open /\ s[open] = Ch.lpar
        close  == IF hasOpen THEN FirstClose(s, open) ELSE 0
    IN  IF hasOpen /\ close > 0
        THEN [ok |-> TRUE, number |-> SubSeq(s, 2 + w1, numEnd),
              title |-> SubSeq(s, open + 1, close - 1), end |-> close]
        ELSE [ok |-> FALSE, number |-> <<>>, title |-> <<>>, end |-> 0]

\* section_pattern.match(line) of main.py
section_pattern(line) == HeaderMatch(line, FALSE)

\* SECTION_REGEX.match(line) of p.py; the tail \s*(.*)$ always matches
SECTION_REGEX(line) == HeaderMatch(line, TRUE)

\* a wrong lower-level test: a Hangul syllable and a dot also match
lower_level_match_syllable(s) ==
    LET n == DigitRun(s)
    IN  IF n >= 1 /\ Len(s) > n /\ s[n + 1] = Ch.dot THEN n + 1
        ELSE IF Len(s) >= 2 /\ s[1] \in 44032 .. 55203 /\ s[2] = Ch.dot THEN 2
        ELSE 0

\* lower_level_pattern.match(s), ^\d+\. : length of the match, 0 for no match
lower_level_match(s) ==
    LET n == DigitRun(s)
    IN  IF n >= 1 /\ Len(s) > n /\ s[n + 1] = Ch.dot THEN n + 1 ELSE 0

\* lower_level_pattern.search(s).start(), -1 for no match: the pattern is
\* anchored with ^ and compiled without re.MULTILINE, so a search can only
\* match at position 0
lower_level_search(s) == IF lower_level_match(s) > 0 THEN 0 ELSE -1

\* is_higher_level_enum(s)
is_higher_level_enum(s) == s # <<>> /\ s[1] \in VALID_HIGHER_ENUMS

\* p.py, VALID_LINE_PATTERN alternative (A): 제\s*\d+(?:장|절|조(?:의\d+)?)
\* (the optional suffix cannot change whether the prefix matches)
ValidLineAltA(s) ==
    LET w == SpaceRun(Drop(s, 1))
        n == DigitRun(Drop(s, 1 + w))
    IN  /\ s # <<>> /\ s[1] = Ch.je
        /\ n >= 1
        /\ Len(s) >= 1 + w + n + 1
        /\ s[1 + w + n + 1] \in {51109, 51208, Ch.jo}

\* alternative (B): \d+\.\s*
ValidLineAltB(s) == lower_level_match(s) > 0

\* alternative (C): [가나다라마바사아자차카타파하]\.\s*
HangulEnums ==
    {44032, 45208, 45796, 46972, 47560, 48148, 49324, 50500, 51088, 52264,
     52852, 53440, 54028, 54616}

ValidLineAltC(s) == Len(s) >= 2 /\ s[1] \in HangulEnums /\ s[2] = Ch.dot

\* alternative (D): [①-㉟], a character class given as a range of code
\* points, U+2460 to U+325F
ValidLineAltD(s) == s # <<>> /\ Ch.c1 <= s[1] /\ s[1] <= Ch.c35

\* VALID_LINE_PATTERN.match(s)
VALID_LINE_PATTERN(s) ==
    ValidLineAltA(s) \/ ValidLineAltB(s) \/ ValidLineAltC(s) \/ ValidLineAltD(s)

\* is_valid_line(line)
is_valid_line(line) == VALID_LINE_PATTERN(Strip(line))

\* a wrong noise test: the digits-only test of lines 56-57 is missing
unwanted_line_markers_only(line) == Contains(line, MarkerA) \/ Contains(line, MarkerB)

\* the noise test of clean_unwanted_lines: TRUE when the line is skipped
unwanted_line(line) ==
    \/ Contains(line, MarkerA)
    \/ Contains(line, MarkerB)
    \/ IsDigit(Strip(line))

\* clean_unwanted_lines(lines)
RECURSIVE clean_unwanted_lines(_)
clean_unwanted_lines(ls) ==
    IF ls = <<>> THEN <<>>
    ELSE IF unwanted_line(Head(ls)) THEN clean_unwanted_lines(Tail(ls))
    ELSE <<Head(ls)>> \o clean_unwanted_lines(Tail(ls))

----------------------------------------------------------------------------
(* Inputs.                                                                  *)

\* the lines the input texts are made of
LinePool ==
    { <<9312, 97>>,                                  \* "①a"
      <<12881, 97>>,                                 \* "㉑a"
      <<49, 46, 32, 102, 111, 111>>,                 \* "1. foo"
      <<51228, 54, 51312, 40, 116, 41>>,             \* "제6조(t)"
      <<51228, 54, 51312, 40, 116, 41, 32, 9313, 99>>,  \* "제6조(t) ②c"
      <<51228, 54, 51312, 40, 116, 41, 32, 120>>,    \* "제6조(t) x"
      <<120>>,                                       \* "x"
      <<52, 50>>,                                    \* "42"
      <<48277, 51228, 52376, 32, 120>>,              \* "법제처 x"
      <<9312>>,                                      \* "①"
      <<120, 32, 9313, 99>>,                         \* "x ②c"
      <<32>> }                                       \* " "

\* "제6조(보안과제) ①비밀 준수 의무 1. 전파금지 가. 예외없음"
ScenarioLine1 ==
    <<51228, 54, 51312, 40, 48372, 50504, 44284, 51228, 41, 32, 9312, 48708,
      48128, 32, 51456, 49688, 32, 51032, 47924, 32, 49, 46, 32, 51204, 54028,
      44552, 51648, 32, 44032, 46, 32, 50696, 50808, 50630, 51020>>
\* "②교육 실시"
ScenarioLine2 == <<9313, 44368, 50977, 32, 49892, 49884>>

\* the two-line text of the end-to-end scenario
ScenarioText == Join(<<ScenarioLine1, ScenarioLine2>>)

\* every sequence of 1..n lines of the pool
LineSeqs(n) == UNION { [1 .. k -> LinePool] : k \in 1 .. n }

\* "제6조(t)" and "①a"
LineHeader == <<51228, 54, 51312, 40, 116, 41>>
LineGlyph == <<9312, 97>>
\* "제6조의2의3(t)": a header with two sub-numbering groups
LineSuffix2 == <<51228, 54, 51312, 51032, 50, 51032, 51, 40, 116, 41>>
\* "가. b": a line that starts with a Hangul enumerator
LineHangul == <<44032, 46, 32, 98>>
\* "①a 1. foo": a numeric enumerator inside a line
LineInline == <<9312, 97, 32, 49, 46, 32, 102, 111, 111>>
\* "제2항 ①에": a glyph inside a line of free text
LineMention == <<51228, 50, 54637, 32, 9312, 50640>>

\* texts for single cases, of fixed length
ExtraTexts ==
    { Join(ls) : ls \in
        { <<LineSuffix2>>,
          <<LineHeader, LineGlyph, LineSuffix2>>,
          <<LineHeader, LineGlyph, <<49, 46, 32, 102, 111, 111>>, LineHangul>>,
          <<LineHeader, LineGlyph, LineHangul>>,
          <<LineHangul>>,
          <<LineHeader, LineGlyph, LineMention>>,
          <<LineMention>>,
          <<LineInline>>,
          <<LineHeader, LineInline>>,
          <<LineHeader, <<9312, 50>>>> } }          \* "①2"

\* a header H, trailing texts T that begin with a Level-1 glyph ("①a",
\* "①") and lines before them ("①a"; "제6조(t) x", "1. foo")
PairTrailing == { LineGlyph, <<9312>> }
PairBefore ==
    { <<>>, <<LineGlyph>>,
      <<LineHeader \o <<32, 120>>, <<49, 46, 32, 102, 111, 111>>>> }

\* the line H T followed by the lines H and T, after the lines of b
PairLines(b, t) == b \o <<LineHeader \o <<Ch.sp>> \o t, LineHeader, t>>

PairTexts == { Join(PairLines(b, t)) : b \in PairBefore, t \in PairTrailing }

\* the input texts of the model
Texts ==
    { Join(ls) : ls \in LineSeqs(MaxLines) } \cup {ScenarioText} \cup ExtraTexts
        \cup PairTexts

----------------------------------------------------------------------------
(* State.                                                                   *)

VARIABLES
    prog,                  \* which program runs: "main" (main.py) or "p" (p.py)
    text,                  \* the argument text
    lines,                 \* main.py: lines after cleaning; p.py: the argument lines
    idx,                   \* position of the for loop over lines (1-based)
    pc,                    \* "start", "loop", "rem" (inside process_remainder), "done"
    remainder_text,        \* process_remainder's remainder_text
    sections,              \* main.py: sections
    current_section,       \* main.py: current_section
    current_higher_level,  \* main.py: current_higher_level
    main_body,             \* p.py: document["main_body"]
    current_article,       \* p.py: current_article
    result,                \* the returned document, None before the return
    born,                  \* history: number of nodes created so far
    hdrs,                  \* history: number of header lines matched so far
    original_data,         \* generate_chunks: the argument, None when it does not run
    cpc,                   \* generate_chunks: "idle", "article", "paragraph", "done", "raised"
    ai,                    \* generate_chunks: position in doc['main_body'] (1-based)
    pi,                    \* generate_chunks: position in article['paragraphs'] (1-based)
    article_num,           \* generate_chunks: article_num of the article at hand
    chunks,                \* generate_chunks: chunks
    pdf_files,             \* convert_pdfs_to_json: the files of the folder, as listed
    doc_id,                \* convert_pdfs_to_json: doc_id of the for loop, 0 when it does not run
    documents,             \* convert_pdfs_to_json: documents
    jprog,                 \* which reader of a JSON file runs: "idle", "embed", "nllb", "main3", "marian"
    jpc,                   \* its position
    data,                  \* data, the JSON it loaded, None when none runs
    chunk_i,               \* process_single_json: position of the for loop over chunks (1-based)
    chunk_id_counts,       \* process_single_json: chunk_id_counts
    chunk_ids,             \* process_single_json: chunk_ids
    contents,              \* process_single_json: contents
    embeddings,            \* process_single_json: embeddings
    chunk_size,            \* translate_json_in_chunks: chunk_size
    texts,                 \* translate_json_in_chunks: texts
    paths,                 \* translate_json_in_chunks: paths
    batch_i,               \* translate_json_in_chunks: i of the for loop (0-based, as range gives it)
    all_translations,      \* translate_json_in_chunks: all_translations
    indexed_items,         \* main3.py main: indexed_items
    translations_dict,     \* main3.py main: translations_dict
    thread,                \* main3.py: the two calls of translate_sublist, t0 and t1
    collected,             \* translate_json_marian: the seven lists of texts
    translated,            \* translate_json_marian: the seven lists of translations
    counters               \* translate_json_marian: the seven positions doc_idx .. subsubitem_text_idx

\* the variables of the parsers
pvars == <<prog, text, lines, idx, pc, remainder_text, sections, current_section,
           current_higher_level, main_body, current_article, result, born, hdrs>>

\* the variables of generate_chunks
cvars == <<original_data, cpc, ai, pi, article_num, chunks>>

\* the variables of convert_pdfs_to_json
bvars == <<pdf_files, doc_id, documents>>

\* the variables of the readers of a JSON file
jvars == <<jprog, jpc, data>>

\* the variables of process_single_json
evars == <<chunk_i, chunk_id_counts, chunk_ids, contents, embeddings>>

\* the variables of translate_json_in_chunks
nvars == <<chunk_size, texts, paths, batch_i, all_translations>>

\* the variables of main3.py
mvars == <<indexed_items, translations_dict, thread>>

\* the variables of translate_json_marian
kvars == <<collected, translated, counters>>

xvars == <<jvars, evars, nvars, mvars, kvars>>

vars == <<pvars, cvars, bvars, xvars>>

\* Nodes carry two history fields that the code does not have: born, the
\* rank of the node's creation, and hdr, the number of header lines matched
\* when it was created.  They are written once and never read by an action.

\* generate_chunks is not running
ChunkIdle ==
    /\ original_data = None
    /\ cpc = "idle"
    /\ ai = 1
    /\ pi = 1
    /\ article_num = <<>>
    /\ chunks = <<>>

\* convert_pdfs_to_json is not running
BatchIdle ==
    /\ pdf_files = <<>>
    /\ doc_id = 0
    /\ documents = <<>>

\* process_single_json is not running
EmbedIdle ==
    /\ chunk_i = 1
    /\ chunk_id_counts = <<>>
    /\ chunk_ids = <<>>
    /\ contents = <<>>
    /\ embeddings = <<>>

\* translate_json_in_chunks is not running
NllbIdle ==
    /\ chunk_size = 0
    /\ texts = <<>>
    /\ paths = <<>>
    /\ batch_i = 0
    /\ all_translations = <<>>

\* main of main3.py is not running
Main3Idle ==
    /\ indexed_items = <<>>
    /\ translations_dict = <<>>
    /\ thread = <<>>

\* translate_json_marian is not running
MarianIdle ==
    /\ collected = <<>>
    /\ translated = <<>>
    /\ counters = <<>>

\* no reader of a JSON file is running
JsonIdle ==
    /\ jprog = "idle"
    /\ jpc = "idle"
    /\ data = None
    /\ EmbedIdle
    /\ NllbIdle
    /\ Main3Idle
    /\ MarianIdle

Init ==
    /\ ChunkIdle
    /\ BatchIdle
    /\ JsonIdle
    /\ prog \in {"main", "p"}
    /\ text \in Texts
    /\ lines = <<>>
    /\ idx = 1
    /\ pc = "start"
    /\ remainder_text = <<>>
    /\ sections = <<>>
    /\ current_section = None
    /\ current_higher_level = None
    /\ main_body = <<>>
    /\ current_article = None
    /\ result = None
    /\ born = 0
    /\ hdrs = 0

----------------------------------------------------------------------------
(* src/source/main.py: parse_text_to_structure.                             *)

\* the dict of lines 130-134 and 149-153, 219-223
NewHigherLevel(level, content, b, h) ==
    [level |-> level, content |-> content, lower_levels |-> <<>>, born |-> b, hdr |-> h]

\* the dict of lines 145-148, 214-217 and 252-255
NewSection(title, b, h) ==
    [title |-> title, higher_levels |-> <<>>, born |-> b, hdr |-> h]

\* a wrong append: the higher level is put in front of its siblings
PrependHigherLevel(sec, hl) == [sec EXCEPT !.higher_levels = <<hl>> \o @]

\* current_section["higher_levels"].append(current_higher_level)
AppendHigherLevel(sec, hl) == [sec EXCEPT !.higher_levels = Append(@, hl)]

\* lines 82-83: split the text and drop the unwanted lines
SplitAndClean ==
    /\ prog = "main" /\ pc = "start"
    /\ lines' = clean_unwanted_lines(Split(text))
    /\ pc' = "loop"
    /\ UNCHANGED <<prog, text, idx, remainder_text, sections, current_section,
                   current_higher_level, main_body, current_article, result, born, hdrs>>
    /\ UNCHANGED <<cvars, bvars, xvars>>

\* the current line of the for loop, stripped (line 236)
CurLine == Strip(lines[idx])

\* the call process_remainder(rt) up to the loop (lines 106-108): an empty
\* text returns at once and the for loop moves on
EnterRemainder(rt) ==
    LET s == Strip(rt)
    IN  /\ remainder_text' = s
        /\ pc' = IF s = <<>> THEN "loop" ELSE "rem"
        /\ idx' = IF s = <<>> THEN idx + 1 ELSE idx

\* lines 237-238: an empty line is skipped
BlankLine ==
    /\ prog = "main" /\ pc = "loop" /\ idx <= Len(lines)
    /\ CurLine = <<>>
    /\ idx' = idx + 1
    /\ UNCHANGED <<prog, text, lines, pc, remainder_text, sections, current_section,
                   current_higher_level, main_body, current_article, result, born, hdrs>>
    /\ UNCHANGED <<cvars, bvars, xvars>>

\* lines 241-260: a line that starts with a header
HeaderLine ==
    /\ prog = "main" /\ pc = "loop" /\ idx <= Len(lines)
    /\ CurLine # <<>>
    /\ LET m == section_pattern(CurLine)
       IN  /\ m.ok
           /\ IF Truthy(current_section)
              THEN /\ sections' = Append(sections,
                                     IF Truthy(current_higher_level)
                                     THEN AppendHigherLevel(current_section, current_higher_level)
                                     ELSE current_section)
                   /\ current_higher_level' = None
              ELSE UNCHANGED <<sections, current_higher_level>>
           /\ current_section' = NewSection(Strip(Take(CurLine, m.end)), born + 1, hdrs + 1)
           /\ born' = born + 1
           /\ hdrs' = hdrs + 1
           /\ IF Drop(CurLine, m.end) # <<>>
              THEN EnterRemainder(Drop(CurLine, m.end))
              ELSE /\ idx' = idx + 1
                   /\ UNCHANGED <<pc, remainder_text>>
    /\ UNCHANGED <<prog, text, lines, main_body, current_article, result>>
    /\ UNCHANGED <<cvars, bvars, xvars>>

\* lines 262-264: any other line goes to process_remainder
OtherLine ==
    /\ prog = "main" /\ pc = "loop" /\ idx <= Len(lines)
    /\ CurLine # <<>>
    /\ ~section_pattern(CurLine).ok
    /\ EnterRemainder(CurLine)
    /\ UNCHANGED <<prog, text, lines, sections, current_section, current_higher_level,
                   main_body, current_article, result, born, hdrs>>
    /\ UNCHANGED <<cvars, bvars, xvars>>

----------------------------------------------------------------------------
(* src/source/main.py: process_remainder, one action per turn of the while  *)
(* loop.  The turn that empties remainder_text also ends the call, and the  *)
(* for loop moves to the next line.                                         *)

\* the end of a turn of the while loop with remainder_text = rt
EndTurn(rt) ==
    /\ remainder_text' = rt
    /\ pc' = IF rt = <<>> THEN "loop" ELSE "rem"
    /\ idx' = IF rt = <<>> THEN idx + 1 ELSE idx

\* the dict of lines 164-167
NewLowerLevel(sublevel, b) == [sublevel |-> sublevel, content |-> <<>>, born |-> b]

\* match.group(0).replace(".", "")
RemoveDots(s) == SelectSeq(s, LAMBDA c : c # Ch.dot)

\* a wrong line 205: the test for an open lower level is missing
HasLowerLevelsUnchecked(hl) == TRUE

\* line 205: the truth value of current_higher_level["lower_levels"]
HasLowerLevels(hl) == hl.lower_levels # <<>>

\* line 207: lower_levels[-1]["content"] += " " + content_part
AppendToLastLower(hl, part) ==
    [hl EXCEPT !.lower_levels[Len(hl.lower_levels)].content = @ \o <<Ch.sp>> \o part]

\* a wrong line 210: the text replaces the content instead of extending it
OverwriteHigher(hl, part) == [hl EXCEPT !.content = part]

\* line 210: current_higher_level["content"] += " " + content_part
AppendToHigher(hl, part) == [hl EXCEPT !.content = @ \o <<Ch.sp>> \o part]

\* lines 180-191: the 0-based positions collected in possible_indices
possible_indices(rt) ==
    (IF lower_level_search(rt) >= 0 THEN {lower_level_search(rt)} ELSE {})
    \cup { i - 1 : i \in { k \in 1 .. Len(rt) : rt[k] \in VALID_HIGHER_ENUMS } }

\* lines 195-199: min(possible_indices), -1 for None
next_index(rt) ==
    IF possible_indices(rt) = {} THEN -1
    ELSE CHOOSE i \in possible_indices(rt) : \A j \in possible_indices(rt) : i <= j

\* lines 197 and 200
content_part(rt) ==
    IF next_index(rt) >= 0 THEN Strip(Take(rt, next_index(rt))) ELSE Strip(rt)

\* A) lines 113-134: the text starts with a glyph of VALID_HIGHER_ENUMS
RemHigher ==
    /\ prog = "main" /\ pc = "rem"
    /\ is_higher_level_enum(remainder_text)
    /\ IF Truthy(current_higher_level) /\ Truthy(current_section)
       THEN current_section' = AppendHigherLevel(current_section, current_higher_level)
       ELSE UNCHANGED current_section
    /\ current_higher_level' = NewHigherLevel(<<remainder_text[1]>>, <<>>, born + 1, hdrs)
    /\ born' = born + 1
    /\ EndTurn(Strip(Drop(remainder_text, 1)))
    /\ UNCHANGED <<prog, text, lines, sections, main_body, current_article, result, hdrs>>
    /\ UNCHANGED <<cvars, bvars, xvars>>

\* B) lines 138-171: the text starts with "N."
RemLower ==
    /\ prog = "main" /\ pc = "rem"
    /\ ~is_higher_level_enum(remainder_text)
    /\ lower_level_match(remainder_text) > 0
    /\ LET offset   == lower_level_match(remainder_text)
           mkSec    == ~Truthy(current_higher_level) /\ ~Truthy(current_section)
           mkHl     == ~Truthy(current_higher_level)
           b1       == IF mkSec THEN born + 1 ELSE born
           b2       == IF mkHl THEN b1 + 1 ELSE b1
           hl       == IF mkHl THEN NewHigherLevel(<<>>, <<>>, b2, hdrs)
                       ELSE current_higher_level
           sublevel == RemoveDots(Take(remainder_text, offset))
       IN  /\ current_section' = IF mkSec THEN NewSection(UntitledTitle, b1, hdrs)
                                 ELSE current_section
           /\ current_higher_level' =
                  [hl EXCEPT !.lower_levels = Append(@, NewLowerLevel(sublevel, b2 + 1))]
           /\ born' = b2 + 1
           /\ EndTurn(Strip(Drop(remainder_text, offset)))
    /\ UNCHANGED <<prog, text, lines, sections, main_body, current_article, result, hdrs>>
    /\ UNCHANGED <<cvars, bvars, xvars>>

\* C) lines 173-232: the text starts with no enumerator and is content up to
\* the next enumerator position.  Indexing an empty lower_levels with [-1]
\* raises IndexError.
RemContent ==
    /\ prog = "main" /\ pc = "rem"
    /\ ~is_higher_level_enum(remainder_text)
    /\ lower_level_match(remainder_text) = 0
    /\ LET part == content_part(remainder_text)
           nxt  == next_index(remainder_text)
           rest == IF nxt < 0 THEN <<>> ELSE Strip(Drop(remainder_text, nxt))
       IN  IF Truthy(current_higher_level)
           THEN IF HasLowerLevels(current_higher_level)
                THEN IF current_higher_level.lower_levels = <<>>
                     THEN /\ pc' = "raised"
                          /\ UNCHANGED <<current_higher_level, current_section, born,
                                         remainder_text, idx>>
                     ELSE /\ current_higher_level' =
                                 AppendToLastLower(current_higher_level, part)
                          /\ EndTurn(rest)
                          /\ UNCHANGED <<current_section, born>>
                ELSE /\ current_higher_level' = AppendToHigher(current_higher_level, part)
                     /\ EndTurn(rest)
                     /\ UNCHANGED <<current_section, born>>
           ELSE LET mkSec == ~Truthy(current_section)
                    b1    == IF mkSec THEN born + 1 ELSE born
                IN  /\ current_section' = IF mkSec THEN NewSection(UntitledTitle, b1, hdrs)
                                          ELSE current_section
                    /\ current_higher_level' = NewHigherLevel(<<>>, part, b1 + 1, hdrs)
                    /\ born' = b1 + 1
                    /\ EndTurn(rest)
    /\ UNCHANGED <<prog, text, lines, sections, main_body, current_article, result, hdrs>>
    /\ UNCHANGED <<cvars, bvars, xvars>>

\* lines 266-276: after the last line, close what is open and return
Finish ==
    /\ prog = "main" /\ pc = "loop" /\ idx > Len(lines)
    /\ LET sec == IF Truthy(current_higher_level) /\ Truthy(current_section)
                  THEN AppendHigherLevel(current_section, current_higher_level)
                  ELSE current_section
           out == IF Truthy(current_section) THEN Append(sections, sec) ELSE sections
       IN  /\ sections' = out
           /\ current_section' = sec
           /\ result' = [sections |-> out]
    /\ pc' = "done"
    /\ UNCHANGED <<prog, text, lines, idx, remainder_text, current_higher_level,
                   main_body, current_article, born, hdrs>>
    /\ UNCHANGED <<cvars, bvars, xvars>>

----------------------------------------------------------------------------
(* src/source/p.py: parse_text_to_structure(lines, doc_id, title).          *)

\* p.py takes the lines themselves
PStart ==
    /\ prog = "p" /\ pc = "start"
    /\ lines' = Split(text)
    /\ pc' = "loop"
    /\ UNCHANGED <<prog, text, idx, remainder_text, sections, current_section,
                   current_higher_level, main_body, current_article, result, born, hdrs>>
    /\ UNCHANGED <<cvars, bvars, xvars>>

\* group 3 of SECTION_REGEX, \s*(.*)$ after the title, stripped (line 126)
extra_text(line, m) == Strip(Drop(line, m.end))

\* lines 119-132: a header line stores the open article and opens the next
PHeader ==
    /\ prog = "p" /\ pc = "loop" /\ idx <= Len(lines)
    /\ LET line == Strip(lines[idx])
           m    == SECTION_REGEX(line)
       IN  /\ m.ok
           /\ main_body' = IF Truthy(current_article) THEN Append(main_body, current_article)
                           ELSE main_body
           /\ current_article' = [article_number |-> m.number,
                                  article_title  |-> m.title,
                                  article_text   |-> extra_text(line, m),
                                  born |-> born + 1, hdr |-> hdrs + 1]
    /\ born' = born + 1
    /\ hdrs' = hdrs + 1
    /\ idx' = idx + 1
    /\ UNCHANGED <<prog, text, lines, pc, remainder_text, sections, current_section,
                   current_higher_level, result>>
    /\ UNCHANGED <<cvars, bvars, xvars>>

\* lines 133-136: any other line continues the open article, or is dropped
PText ==
    /\ prog = "p" /\ pc = "loop" /\ idx <= Len(lines)
    /\ LET line == Strip(lines[idx])
       IN  /\ ~SECTION_REGEX(line).ok
           /\ current_article' =
                  IF Truthy(current_article)
                  THEN [current_article EXCEPT !.article_text = @ \o <<Ch.sp>> \o line]
                  ELSE current_article
    /\ idx' = idx + 1
    /\ UNCHANGED <<prog, text, lines, pc, remainder_text, sections, current_section,
                   current_higher_level, main_body, result, born, hdrs>>
    /\ UNCHANGED <<cvars, bvars, xvars>>

\* lines 138-142: store the last article and return the document
PFinish ==
    /\ prog = "p" /\ pc = "loop" /\ idx > Len(lines)
    /\ LET out == IF Truthy(current_article) THEN Append(main_body, current_article)
                  ELSE main_body
       IN  /\ main_body' = out
           /\ result' = [main_body |-> out]
    /\ pc' = "done"
    /\ UNCHANGED <<prog, text, lines, idx, remainder_text, sections, current_section,
                   current_higher_level, current_article, born, hdrs>>
    /\ UNCHANGED <<cvars, bvars, xvars>>

----------------------------------------------------------------------------

Next ==
    \/ SplitAndClean
    \/ BlankLine
    \/ HeaderLine
    \/ OtherLine
    \/ RemHigher
    \/ RemLower
    \/ RemContent
    \/ Finish
    \/ PStart
    \/ PHeader
    \/ PText
    \/ PFinish

Spec == Init /\ [][Next]_vars

----------------------------------------------------------------------------
(* src/chunking/mainKR.py: generate_chunks.  src/chunking/main.py derives   *)
(* the ids and labels by the same statements and differs in the text fields *)
(* it reads (the *_en fields).                                              *)

\* str(n) for an integer n
RECURSIVE StrNat(_)
StrNat(n) == IF n < 10 THEN <<Ch.d0 + n>> ELSE StrNat(n \div 10) \o <<Ch.d0 + (n % 10)>>

Str(n) == IF n < 0 THEN <<45>> \o StrNat(0 - n) ELSE StrNat(n)

\* ' '.join(parts)
RECURSIVE JoinSp(_)
JoinSp(parts) ==
    IF parts = <<>> THEN <<>>
    ELSE IF Len(parts) = 1 THEN parts[1]
    ELSE parts[1] \o <<Ch.sp>> \o JoinSp(Tail(parts))

\* lines 22 and 59: the item texts of a paragraph, stripped and joined
items_text(paragraph) ==
    JoinSp([k \in 1 .. Len(paragraph.items) |-> Strip(paragraph.items[k].item_text)])

\* lines 18-23: article_text and the texts of all paragraphs and items
RECURSIVE paragraphs_content(_)
paragraphs_content(ps) ==
    IF ps = <<>> THEN <<>>
    ELSE <<Ch.sp>> \o Strip(Head(ps).paragraph_text) \o <<Ch.sp>> \o items_text(Head(ps))
             \o paragraphs_content(Tail(ps))

article_content(article) ==
    Strip(article.article_text) \o paragraphs_content(article.paragraphs)

\* lines 27-31: the leading digits of article_number, or all of it
article_num_of(article_number) ==
    IF DigitRun(article_number) > 0 THEN Take(article_number, DigitRun(article_number))
    ELSE article_number

\* "「" title "」 "
TitlePart(title) == <<12300>> \o title \o <<12301, Ch.sp>>

\* lines 48-54: the label of the paragraph for a one-character symbol
paragraph_num_label(paragraph_symbol) ==
    LET unicode_num == paragraph_symbol[1]
    IN  IF 9312 <= unicode_num /\ unicode_num <= 9331
        THEN Str(unicode_num - 9311) \o <<54637>>
        ELSE <<49, 54637>>

\* lines 64-71: the paragraph part of the chunk id for a one-character symbol
paragraph_num(paragraph_symbol) ==
    LET unicode_num == paragraph_symbol[1]
    IN  IF DigitRun(paragraph_symbol) > 0
        THEN Take(paragraph_symbol, DigitRun(paragraph_symbol))
        ELSE IF IsDigit(Str(unicode_num - 9311)) THEN Str(unicode_num - 9311)
        ELSE <<49>>

\* the document and the article at hand
Doc == original_data.documents[1]

Article == Doc.main_body[ai]

\* lines 11-40: the chunk of an article
ArticleChunk ==
    /\ cpc = "article" /\ ai <= Len(Doc.main_body)
    /\ article_num' = article_num_of(Article.article_number)
    /\ chunks' = Append(chunks,
           [chunk_id      |-> Doc.document_id \o <<Ch.dot>> \o article_num_of(Article.article_number),
            chunk_type    |-> "article",
            metadata_text |-> TitlePart(Doc.document_title) \o Article.article_number
                                  \o <<Ch.sp, Ch.lpar>> \o Article.article_title \o <<Ch.rpar>>,
            content       |-> Strip(article_content(Article))])
    /\ pi' = 1
    /\ cpc' = "paragraph"
    /\ UNCHANGED <<original_data, ai>>
    /\ UNCHANGED <<pvars, bvars, xvars>>

\* lines 43-80: the chunk of a paragraph; ord() of a string that is not one
\* character long raises TypeError
ParagraphChunk ==
    /\ cpc = "paragraph" /\ pi <= Len(Article.paragraphs)
    /\ LET paragraph == Article.paragraphs[pi]
           symbol    == paragraph.paragraph_symbol
       IN  IF Len(symbol) # 1
           THEN /\ cpc' = "raised"
                /\ UNCHANGED <<chunks, pi>>
           ELSE /\ chunks' = Append(chunks,
                       [chunk_id      |-> Doc.document_id \o <<Ch.dot>> \o article_num
                                              \o <<Ch.dot>> \o paragraph_num(symbol),
                        chunk_type    |-> "paragraph",
                        metadata_text |-> TitlePart(Doc.document_title) \o article_num
                                              \o <<Ch.jo>> \o paragraph_num_label(symbol),
                        content       |-> Strip(Strip(paragraph.paragraph_text) \o <<Ch.sp>>
                                                    \o items_text(paragraph))])
                /\ pi' = pi + 1
                /\ UNCHANGED cpc
    /\ UNCHANGED <<original_data, ai, article_num>>
    /\ UNCHANGED <<pvars, bvars, xvars>>

\* the paragraphs of the article are exhausted: on to the next article
NextArticle ==
    /\ cpc = "paragraph" /\ pi > Len(Article.paragraphs)
    /\ ai' = ai + 1
    /\ cpc' = "article"
    /\ UNCHANGED <<original_data, pi, article_num, chunks>>
    /\ UNCHANGED <<pvars, bvars, xvars>>

\* line 82: the articles are exhausted: return {"chunks": chunks}
ChunkReturn ==
    /\ cpc = "article" /\ ai > Len(Doc.main_body)
    /\ cpc' = "done"
    /\ UNCHANGED <<original_data, ai, pi, article_num, chunks>>
    /\ UNCHANGED <<pvars, bvars, xvars>>

\* the parsers are not running
ParserIdle ==
    /\ prog = "none"
    /\ text = <<>>
    /\ lines = <<>>
    /\ idx = 1
    /\ pc = "idle"
    /\ remainder_text = <<>>
    /\ sections = <<>>
    /\ current_section = None
    /\ current_higher_level = None
    /\ main_body = <<>>
    /\ current_article = None
    /\ result = None
    /\ born = 0
    /\ hdrs = 0

\* longest main_body of the documents built from ArticlePool
MaxArticles == 2

\* a paragraph of the output contract
Paragraph(symbol, ptext, items) ==
    [paragraph_symbol |-> symbol, paragraph_text |-> ptext,
     items |-> [k \in 1 .. Len(items) |-> [item_symbol |-> Str(k), item_text |-> items[k]]]]

\* an article of the output contract
ArticleOf(number, ps) ==
    [article_number |-> number, article_title |-> <<116>>, article_text |-> <<98, 32>>,
     paragraphs |-> ps]

\* articles with several paragraphs, with no paragraph, with a virtual
\* paragraph, with a sub-numbered article number
ArticlePool ==
    { ArticleOf(<<54, 51312>>,                                   \* "6조"
                <<Paragraph(<<9312>>, <<97>>, <<<<120>>, <<121, 32>>>>),
                  Paragraph(<<9313>>, <<32, 99>>, <<>>)>>),
      ArticleOf(<<54, 51312, 51032, 50>>, <<>>),                 \* "6조의2"
      ArticleOf(<<55, 51312>>,                                   \* "7조"
                <<Paragraph(<<>>, <<>>, <<<<102, 111, 111>>>>)>>),
      ArticleOf(<<49, 48, 51312>>,                               \* "10조"
                <<Paragraph(<<12881>>, <<97>>, <<>>)>>) }

\* a document of the output contract
DocOf(articles) ==
    [document_id |-> <<49>>, document_title |-> <<84>>, main_body |-> articles]

\* the documents of the model: one article with one paragraph for every glyph
\* of VALID_HIGHER_ENUMS, and every list of 1..MaxArticles pool articles
ChunkDocs ==
    { DocOf(<<ArticleOf(<<49, 51312>>, <<Paragraph(<<g>>, <<97>>, <<>>)>>)>>) :
          g \in VALID_HIGHER_ENUMS }
    \cup { DocOf(as) : as \in UNION { [1 .. k -> ArticlePool] : k \in 1 .. MaxArticles } }

ChunkInit ==
    /\ ParserIdle
    /\ BatchIdle
    /\ JsonIdle
    /\ original_data \in { [documents |-> <<d>>] : d \in ChunkDocs }
    /\ cpc = "article"
    /\ ai = 1
    /\ pi = 1
    /\ article_num = <<>>
    /\ chunks = <<>>

ChunkNext ==
    \/ ArticleChunk
    \/ ParagraphChunk
    \/ NextArticle
    \/ ChunkReturn

SpecChunk == ChunkInit /\ [][ChunkNext]_vars

----------------------------------------------------------------------------
(* The line tests on their own: is_higher_level_enum of main.py and         *)
(* VALID_LINE_PATTERN of p.py applied to one line.                          *)

\* the interpunct U+318D
Interpunct == 12685

\* first characters of the lines tested: the 35 glyphs, the interpunct, three
\* more characters between U+2460 and U+325F (U+2474, U+24EA, U+3250), the
\* character after U+325F, and "x", "1", "가", "제"
FirstChars ==
    VALID_HIGHER_ENUMS \cup {Interpunct, 9332, 9450, 12880, 12896, 120, 49, 44032, Ch.je}

\* the lines tested: c, c "a", c ". a" and the header "제6조(t)"
TestLines ==
    UNION { { <<c>>, <<c, 97>>, <<c, Ch.dot, Ch.sp, 97>> } : c \in FirstChars }
    \cup { <<Ch.je, 54, Ch.jo, Ch.lpar, 116, Ch.rpar>>, <<>> }

LineInit ==
    /\ ChunkIdle
    /\ BatchIdle
    /\ JsonIdle
    /\ prog = "line"
    /\ text \in TestLines
    /\ lines = <<>>
    /\ idx = 1
    /\ pc = "start"
    /\ remainder_text = <<>>
    /\ sections = <<>>
    /\ current_section = None
    /\ current_higher_level = None
    /\ main_body = <<>>
    /\ current_article = None
    /\ result = None
    /\ born = 0
    /\ hdrs = 0

\* both tests applied to the line
TestLine ==
    /\ prog = "line" /\ pc = "start"
    /\ result' = [higher |-> is_higher_level_enum(text),
                  alt_d  |-> ValidLineAltD(Strip(text)),
                  valid  |-> is_valid_line(text)]
    /\ pc' = "done"
    /\ UNCHANGED <<prog, text, lines, idx, remainder_text, sections, current_section,
                   current_higher_level, main_body, current_article, born, hdrs>>
    /\ UNCHANGED <<cvars, bvars, xvars>>

LineNext == TestLine

SpecLine == LineInit /\ [][LineNext]_vars

----------------------------------------------------------------------------
(* split_jomun_list_and_main_text of src/source/p.py.                       *)

\* longest text that is split, in lines
MaxSplitLines == 3

\* the default marker "{전문}"
Marker == <<123, 51204, 47928, 125>>

\* line == marker, without the strip
IsMarkerLineExact(line) == line = Marker

\* line.strip() == marker
IsMarkerLine(line) == Strip(line) = Marker

\* the for loop over lines, from line k on
RECURSIVE SplitLoop(_, _, _, _, _)
SplitLoop(ls, k, found_marker, jomun_list_lines, main_text_lines) ==
    IF k > Len(ls)
    THEN [jomun_list_text |-> Join(jomun_list_lines),
          main_text       |-> Join(main_text_lines)]
    ELSE IF ~found_marker
    THEN IF IsMarkerLine(ls[k])
         THEN SplitLoop(ls, k + 1, TRUE, jomun_list_lines, main_text_lines)
         ELSE SplitLoop(ls, k + 1, FALSE, Append(jomun_list_lines, ls[k]), main_text_lines)
    ELSE SplitLoop(ls, k + 1, TRUE, jomun_list_lines, Append(main_text_lines, ls[k]))

split_jomun_list_and_main_text(full_text) ==
    SplitLoop(Split(full_text), 1, FALSE, <<>>, <<>>)

\* the lines of the texts that are split: "a", the empty line, the marker,
\* the marker between blanks, and a line that has the marker after "b"
SplitPool ==
    { <<97>>, <<>>, Marker, <<Ch.sp>> \o Marker \o <<Ch.sp>>, <<98>> \o Marker }

SplitTexts == { Join(ls) : ls \in UNION { [1 .. k -> SplitPool] : k \in 1 .. MaxSplitLines } }

SplitInit ==
    /\ ChunkIdle
    /\ BatchIdle
    /\ JsonIdle
    /\ prog = "split"
    /\ text \in SplitTexts
    /\ lines = <<>>
    /\ idx = 1
    /\ pc = "start"
    /\ remainder_text = <<>>
    /\ sections = <<>>
    /\ current_section = None
    /\ current_higher_level = None
    /\ main_body = <<>>
    /\ current_article = None
    /\ result = None
    /\ born = 0
    /\ hdrs = 0

\* the call and its return
SplitText ==
    /\ prog = "split" /\ pc = "start"
    /\ result' = split_jomun_list_and_main_text(text)
    /\ pc' = "done"
    /\ UNCHANGED <<prog, text, lines, idx, remainder_text, sections, current_section,
                   current_higher_level, main_body, current_article, born, hdrs>>
    /\ UNCHANGED <<cvars, bvars, xvars>>

SplitNext == SplitText

SpecSplit == SplitInit /\ [][SplitNext]_vars

----------------------------------------------------------------------------
(* Views of the tree built by main.py.                                      *)

\* the elements of a sequence
Range(q) == { q[i] : i \in 1 .. Len(q) }

\* the sections closed so far together with the open one
AllSections == Range(sections) \cup (IF Truthy(current_section) THEN {current_section} ELSE {})

\* the higher levels of a list of sections
HigherLevelsOf(secs) == UNION { Range(sec.higher_levels) : sec \in Range(secs) }

\* the creation ranks of all nodes of a list of sections
TreeBorn(secs) ==
    { sec.born : sec \in Range(secs) }
    \cup { hl.born : hl \in HigherLevelsOf(secs) }
    \cup UNION { { it.born : it \in Range(hl.lower_levels) } : hl \in HigherLevelsOf(secs) }

\* the elements of q are in creation order
Ordered(q) == \A i, j \in 1 .. Len(q) : i < j => q[i].born < q[j].born

\* s starts with pre
StartsWith(s, pre) == Len(s) >= Len(pre) /\ SubSeq(s, 1, Len(pre)) = pre

MainDone == prog = "main" /\ pc = "done"

----------------------------------------------------------------------------
(* src/source/main.py: convert_pdfs_to_json.  A file of the folder is a     *)
(* record of its name, whether PdfReader and extract_text work on it, and   *)
(* the texts of its pages (<<>> for a page without text).                   *)

\* ".pdf"
DotPdf == <<46, 112, 100, 102>>

\* str.lower() over the letters A-Z
Lower(s) == [i \in 1 .. Len(s) |-> IF s[i] \in 65 .. 90 THEN s[i] + 32 ELSE s[i]]

\* str.replace(sub, "")
RECURSIVE RemoveAll(_, _)
RemoveAll(s, sub) ==
    IF s = <<>> THEN <<>>
    ELSE IF StartsWith(s, sub) THEN RemoveAll(Drop(s, Len(sub)), sub)
    ELSE <<Head(s)>> \o RemoveAll(Tail(s), sub)

\* lines 25-27: the texts of the pages that have one, each followed by "\n"
RECURSIVE PagesText(_)
PagesText(pages) ==
    IF pages = <<>> THEN <<>>
    ELSE (IF Head(pages) # <<>> THEN Head(pages) \o <<Ch.nl>> ELSE <<>>)
             \o PagesText(Tail(pages))

\* a wrong extraction: the text read so far is returned after an exception
extract_text_from_pdf_partial(file) == Strip(PagesText(file.pages))

\* extract_text_from_pdf: "" when anything raises
extract_text_from_pdf(file) ==
    IF file.readable THEN Strip(PagesText(file.pages)) ELSE <<>>

\* a wrong call: the parser starts from what the call before left
CallParserStale(t) ==
    /\ text' = t
    /\ pc' = "start"
    /\ lines' = <<>>
    /\ idx' = 1
    /\ remainder_text' = <<>>
    /\ result' = None
    /\ UNCHANGED <<sections, current_section, current_higher_level, born, hdrs>>

\* the call parse_text_to_structure(t, ...): the locals of lines 82-87 are
\* new in every call
CallParser(t) ==
    /\ text' = t
    /\ pc' = "start"
    /\ lines' = <<>>
    /\ idx' = 1
    /\ remainder_text' = <<>>
    /\ result' = None
    /\ sections' = <<>>
    /\ current_section' = None
    /\ current_higher_level' = None
    /\ born' = 0
    /\ hdrs' = 0

\* the file of this turn of the for loop
File == pdf_files[doc_id]

\* lines 287-291: the next file; a file that is no PDF or gives no text is
\* skipped, any other is parsed
NextFile ==
    /\ doc_id >= 1 /\ pc = "batch" /\ doc_id <= Len(pdf_files)
    /\ IF /\ Len(File.file_name) >= 4
          /\ SubSeq(Lower(File.file_name), Len(File.file_name) - 3, Len(File.file_name)) = DotPdf
          /\ extract_text_from_pdf(File) # <<>>
       THEN /\ CallParser(extract_text_from_pdf(File))
            /\ UNCHANGED doc_id
       ELSE /\ doc_id' = doc_id + 1
            /\ UNCHANGED <<text, pc, lines, idx, remainder_text, result, sections,
                           current_section, current_higher_level, born, hdrs>>
    /\ UNCHANGED <<prog, main_body, current_article, pdf_files, documents>>
    /\ UNCHANGED <<cvars, xvars>>

\* lines 272-276 and 292-297: the returned document, with its id and title,
\* is appended
AppendDocument ==
    /\ doc_id >= 1 /\ prog = "main" /\ pc = "done"
    /\ documents' = Append(documents,
           [id       |-> Str(doc_id),
            title    |-> RemoveAll(File.file_name, DotPdf),
            sections |-> result.sections])
    /\ doc_id' = doc_id + 1
    /\ pc' = "batch"
    /\ UNCHANGED <<prog, text, lines, idx, remainder_text, sections, current_section,
                   current_higher_level, main_body, current_article, result, born, hdrs>>
    /\ UNCHANGED pdf_files
    /\ UNCHANGED <<cvars, xvars>>

\* lines 299-300: after the last file {"documents": documents} is written
SaveJson ==
    /\ doc_id >= 1 /\ pc = "batch" /\ doc_id > Len(pdf_files)
    /\ pc' = "saved"
    /\ UNCHANGED <<prog, text, lines, idx, remainder_text, sections, current_section,
                   current_higher_level, main_body, current_article, result, born, hdrs>>
    /\ UNCHANGED bvars
    /\ UNCHANGED <<cvars, xvars>>

\* longest folder listing
MaxFiles == 3

\* the kinds of file: three PDFs with text ("a": "①a"; "b": the pages
\* "제6조(t) ②c" and "x"; "c": "1. foo", a blank line and "제6조(t) x"), a PDF
\* named in capitals, a PDF the reader fails on, a PDF whose pages give no
\* text, and a file that is no PDF
FileKinds == {"a", "b", "c", "upper", "error", "empty", "other"}

\* the pages of a file of the kind
PagesOf(kind) ==
    CASE kind \in {"a", "upper", "other"} -> <<LineGlyph>>
      [] kind = "b" -> <<LineHeader \o <<Ch.sp, 9313, 99>>, <<120>>>>
      [] kind = "c" -> <<Join(<<<<49, 46, 32, 102, 111, 111>>, <<Ch.sp>>,
                                LineHeader \o <<Ch.sp, 120>>>>)>>
      [] kind = "error" -> <<<<120>>>>
      [] kind = "empty" -> <<<<>>, <<Ch.sp>>>>

\* the i-th file of a listing: "f<i>.pdf", "f<i>.PDF" or "f<i>.txt"
FileOf(kind, i) ==
    [file_name |-> <<102>> \o Str(i)
                       \o (CASE kind = "upper" -> <<46, 80, 68, 70>>
                             [] kind = "other" -> <<46, 116, 120, 116>>
                             [] OTHER -> DotPdf),
     readable  |-> kind # "error",
     pages     |-> PagesOf(kind)]

\* the folder listings of the model
Listings ==
    { [i \in 1 .. Len(kinds) |-> FileOf(kinds[i], i)] :
          kinds \in UNION { [1 .. n -> FileKinds] : n \in 0 .. MaxFiles } }

BatchInit ==
    /\ ChunkIdle
    /\ JsonIdle
    /\ prog = "main"
    /\ text = <<>>
    /\ lines = <<>>
    /\ idx = 1
    /\ pc = "batch"
    /\ remainder_text = <<>>
    /\ sections = <<>>
    /\ current_section = None
    /\ current_higher_level = None
    /\ main_body = <<>>
    /\ current_article = None
    /\ result = None
    /\ born = 0
    /\ hdrs = 0
    /\ pdf_files \in Listings
    /\ doc_id = 1
    /\ documents = <<>>

BatchNext ==
    \/ NextFile
    \/ AppendDocument
    \/ SaveJson
    \/ SplitAndClean
    \/ BlankLine
    \/ HeaderLine
    \/ OtherLine
    \/ RemHigher
    \/ RemLower
    \/ RemContent
    \/ Finish

SpecBatch == BatchInit /\ [][BatchNext]_vars

----------------------------------------------------------------------------
(* process_single_json of src/embeding/main.py.                             *)

\* most chunks of a file
MaxChunks == 3

\* dict.get(key, default)
GetOr(d, key, default) == IF key \in DOMAIN d THEN d[key] ELSE default

\* occurrence == 1 or not, every occurrence taken
AnyOccurrence(occurrence) == TRUE

\* occurrence == 1
FirstOccurrence(occurrence) == occurrence = 1

\* generate_unique_chunk_id: the id, with "_" and occurrence - 1 after it
\* from the second occurrence on
generate_unique_chunk_id(original_chunk_id, occurrence) ==
    IF occurrence = 1 THEN original_chunk_id
    ELSE original_chunk_id \o <<95>> \o Str(occurrence - 1)

\* embedding_model.encode: one embedding for each content, in order
encode(cs) == [k \in 1 .. Len(cs) |-> [embedding_of |-> cs[k]]]

\* a file that json.load cannot decode
Undecodable == [undecodable |-> TRUE]

\* data.get('chunks', [])
ChunksOf(d) == GetOr(d, "chunks", <<>>)

\* the chunks of the files: ids "a", "a " and "b", an empty id, no id;
\* contents "x", a blank content, no content
EmbedChunks ==
    { [chunk_id |-> cid, content |-> c] :
          cid \in { <<97>>, <<97, Ch.sp>>, <<98>>, <<>> }, c \in { <<120>>, <<Ch.sp>> } }
    \cup { [content |-> <<120>>], [chunk_id |-> <<97>>], [chunk_id |-> <<98>>, content |-> <<121, Ch.sp>>] }

\* the files: up to MaxChunks chunks, a file without "chunks", a file that
\* is not JSON
EmbedFiles ==
    { [chunks |-> cs] : cs \in UNION { [1 .. k -> EmbedChunks] : k \in 0 .. MaxChunks } }
    \cup { [other |-> <<>>], Undecodable }

EmbedInit ==
    /\ ParserIdle
    /\ ChunkIdle
    /\ BatchIdle
    /\ jprog = "embed"
    /\ jpc = "load"
    /\ data \in EmbedFiles
    /\ EmbedIdle
    /\ NllbIdle
    /\ Main3Idle
    /\ MarianIdle

\* json.load: a file that cannot be decoded leaves the lists empty
LoadJson ==
    /\ jprog = "embed" /\ jpc = "load"
    /\ jpc' = IF data = Undecodable THEN "check" ELSE "loop"
    /\ UNCHANGED <<jprog, data, evars, nvars, mvars, kvars>>
    /\ UNCHANGED <<pvars, cvars, bvars>>

\* one turn of the for loop over chunks
EmbedChunk ==
    /\ jprog = "embed" /\ jpc = "loop"
    /\ chunk_i <= Len(ChunksOf(data))
    /\ LET chunk             == ChunksOf(data)[chunk_i]
           original_chunk_id == Strip(GetOr(chunk, "chunk_id", <<>>))
           content           == Strip(GetOr(chunk, "content", <<>>))
           occurrence        == GetOr(chunk_id_counts, original_chunk_id, 0) + 1
           unique_chunk_id   == generate_unique_chunk_id(original_chunk_id, occurrence)
       IN  IF original_chunk_id # <<>> /\ content # <<>>
           THEN /\ chunk_id_counts' =
                       [k \in DOMAIN chunk_id_counts \cup {original_chunk_id} |->
                            IF k = original_chunk_id THEN occurrence ELSE chunk_id_counts[k]]
                /\ IF FirstOccurrence(occurrence)
                   THEN /\ chunk_ids' = Append(chunk_ids, unique_chunk_id)
                        /\ contents' = Append(contents, content)
                   ELSE UNCHANGED <<chunk_ids, contents>>
           ELSE UNCHANGED <<chunk_id_counts, chunk_ids, contents>>
    /\ chunk_i' = chunk_i + 1
    /\ UNCHANGED <<jvars, embeddings, nvars, mvars, kvars>>
    /\ UNCHANGED <<pvars, cvars, bvars>>

\* the loop is over, or was never entered
LoopDone == jpc = "check" \/ (jpc = "loop" /\ chunk_i > Len(ChunksOf(data)))

\* return None, None
ReturnNone ==
    /\ jprog = "embed" /\ LoopDone
    /\ chunk_ids = <<>>
    /\ jpc' = "none"
    /\ UNCHANGED <<jprog, data, evars, nvars, mvars, kvars>>
    /\ UNCHANGED <<pvars, cvars, bvars>>

\* return chunk_ids, embeddings
ReturnEmbeddings ==
    /\ jprog = "embed" /\ LoopDone
    /\ chunk_ids # <<>>
    /\ embeddings' = encode(contents)
    /\ jpc' = "returned"
    /\ UNCHANGED <<jprog, data, chunk_i, chunk_id_counts, chunk_ids, contents,
                   nvars, mvars, kvars>>
    /\ UNCHANGED <<pvars, cvars, bvars>>

EmbedNext ==
    \/ LoadJson
    \/ EmbedChunk
    \/ ReturnNone
    \/ ReturnEmbeddings

SpecEmbed == EmbedInit /\ [][EmbedNext]_vars

----------------------------------------------------------------------------
(* The JSON document tree read by the translators.                          *)
(* A text is a string; the translation of a text is a record that names    *)
(* the text it translates, so that a translation put on the wrong node     *)
(* differs from the one the node should get.  Positions are 1-based here,  *)
(* 0-based in the sources (enumerate).                                      *)

\* most documents of a file
MaxDocs == 3

\* the text fields of a node, by depth: document, article, paragraph, item,
\* subitem, subsubitem
TextKeys ==
    << <<"document_title">>, <<"article_title", "article_text">>, <<"paragraph_text">>,
       <<"item_text">>, <<"subitem_text">>, <<"subsubitem_text">> >>

\* the key of the list of children of a node, by depth
ChildKey == <<"main_body", "paragraphs", "items", "subitems", "subsubitems">>

\* the name of the field that receives the translation of a text field
EnName ==
    [document_title  |-> "document_title_en",  article_title   |-> "article_title_en",
     article_text    |-> "article_text_en",    paragraph_text  |-> "paragraph_text_en",
     item_text       |-> "item_text_en",       subitem_text    |-> "subitem_text_en",
     subsubitem_text |-> "subsubitem_text_en"]

\* what the model and the tokenizer give for one text of a batch
Translate(t) == [translation_of |-> t]

\* tokenizer.batch_decode(model.generate(...)): one translation for each
\* text of the batch, in order
translate_batch(batch) == [k \in 1 .. Len(batch) |-> Translate(batch[k])]

\* the smaller of two numbers
Min(a, b) == IF a < b THEN a ELSE b

\* the concatenation of a sequence of sequences
RECURSIVE Flatten(_)
Flatten(qs) == IF qs = <<>> THEN <<>> ELSE Head(qs) \o Flatten(Tail(qs))

\* the loops of gather_texts_for_translation below one node: its own text
\* fields that are truthy, then its children in order
RECURSIVE GatherNode(_, _, _)
GatherNode(node, depth, idxs) ==
    LET fs   == SelectSeq(TextKeys[depth], LAMBDA f : GetOr(node, f, "") # "")
        own  == [k \in 1 .. Len(fs) |->
                     [text |-> node[fs[k]], path |-> <<EnName[fs[k]]>> \o idxs]]
        kids == IF depth = 6 THEN <<>> ELSE GetOr(node, ChildKey[depth], <<>>)
    IN  own \o Flatten([c \in 1 .. Len(kids) |->
                            GatherNode(kids[c], depth + 1, Append(idxs, c))])

\* gather_texts_for_translation, as the list of (text, path)
Gather(d) ==
    LET docs == GetOr(d, "documents", <<>>)
    IN  Flatten([i \in 1 .. Len(docs) |-> GatherNode(docs[i], 1, <<i>>)])

gather_texts_for_translation(d) ==
    LET g == Gather(d)
    IN  [texts |-> [k \in 1 .. Len(g) |-> g[k].text],
         paths |-> [k \in 1 .. Len(g) |-> g[k].path]]

\* node[key] = val
Put(node, key, val) ==
    [k \in DOMAIN node \cup {key} |-> IF k = key THEN val ELSE node[k]]

\* the assignment at the end of a path, below one node
RECURSIVE PutAt(_, _, _, _, _)
PutAt(node, depth, idxs, key, val) ==
    IF idxs = <<>> THEN Put(node, key, val)
    ELSE [node EXCEPT ![ChildKey[depth]][Head(idxs)] =
              PutAt(@, depth + 1, Tail(idxs), key, val)]

\* one turn of the loop of place_translations_back
PlaceOne(d, translation, path) ==
    [d EXCEPT !.documents[path[2]] =
         PutAt(@, 1, SubSeq(path, 3, Len(path)), path[1], translation)]

\* the lengths of path the loop handles; any other raises ValueError
HandledPath(path) == Len(path) \in 2 .. 7

\* place_translations_back: the loop over zip(translations, paths), from k on
RECURSIVE PlaceFrom(_, _, _, _)
PlaceFrom(d, translations, ps, k) ==
    IF k > Len(translations) \/ k > Len(ps) THEN d
    ELSE PlaceFrom(PlaceOne(d, translations[k], ps[k]), translations, ps, k + 1)

place_translations_back(d, translations, ps) == PlaceFrom(d, translations, ps, 1)

\* a document with every depth: eight texts, an empty paragraph text, an
\* empty article text and an empty subsubitem text
DeepDoc ==
    [document_title |-> "T1",
     main_body |->
       << [article_title |-> "A1", article_text |-> "X1",
           paragraphs |->
             << [paragraph_text |-> "P1",
                 items |->
                   << [item_text |-> "I1",
                       subitems |->
                         << [subitem_text |-> "S1",
                             subsubitems |-> << [subsubitem_text |-> "U1"],
                                                [subsubitem_text |-> ""] >>] >>] >>],
                [paragraph_text |-> "", items |-> <<>>] >>],
          [article_title |-> "A2", article_text |-> "", paragraphs |-> <<>>] >>]

\* a document with a title and no article, one with an empty title, one
\* without the key document_title, one without the key main_body
FlatDoc == [document_title |-> "T2", main_body |-> <<>>]
EmptyTitleDoc == [document_title |-> "", main_body |-> <<>>]
NoTitleDoc ==
    [main_body |-> << [article_title |-> "A3", article_text |-> "X3"] >>]
BareDoc == [document_title |-> "T4"]

DocKinds == {DeepDoc, FlatDoc, EmptyTitleDoc, NoTitleDoc, BareDoc}

\* the files: up to MaxDocs documents, and a file without "documents"
TranslateFiles ==
    { [documents |-> ds] : ds \in UNION { [1 .. k -> DocKinds] : k \in 0 .. MaxDocs } }
    \cup { [other |-> <<>>] }

----------------------------------------------------------------------------
(* translate_json_in_chunks of src/translated/NLLB/main.py.                 *)

\* largest chunk_size tried besides the default
MaxChunkSize == 3

\* the default of chunk_size
DefaultChunkSize == 16

\* texts[i:i+chunk_size-1], i counted from 0
SliceShort(q, i, n) == SubSeq(q, i + 1, IF i + n - 1 > Len(q) THEN Len(q) ELSE i + n - 1)

\* texts[i:i+chunk_size], i counted from 0
Slice(q, i, n) == SubSeq(q, i + 1, IF i + n > Len(q) THEN Len(q) ELSE i + n)

NllbInit ==
    /\ ParserIdle
    /\ ChunkIdle
    /\ BatchIdle
    /\ jprog = "nllb"
    /\ jpc = "gather"
    /\ data \in TranslateFiles
    /\ chunk_size \in (1 .. MaxChunkSize) \cup {DefaultChunkSize}
    /\ texts = <<>>
    /\ paths = <<>>
    /\ batch_i = 0
    /\ all_translations = <<>>
    /\ EmbedIdle
    /\ Main3Idle
    /\ MarianIdle

\* texts, paths = gather_texts_for_translation(data)
GatherTexts ==
    /\ jprog = "nllb" /\ jpc = "gather"
    /\ LET gathered == gather_texts_for_translation(data)
       IN  texts' = gathered.texts /\ paths' = gathered.paths
    /\ batch_i' = 0
    /\ all_translations' = <<>>
    /\ jpc' = "translate"
    /\ UNCHANGED <<jprog, data, chunk_size, evars, mvars, kvars>>
    /\ UNCHANGED <<pvars, cvars, bvars>>

\* one turn of the for loop over range(0, len(texts), chunk_size)
TranslateChunk ==
    /\ jprog = "nllb" /\ jpc = "translate"
    /\ batch_i < Len(texts)
    /\ all_translations' = all_translations \o translate_batch(Slice(texts, batch_i, chunk_size))
    /\ batch_i' = batch_i + chunk_size
    /\ UNCHANGED <<jvars, chunk_size, texts, paths, evars, mvars, kvars>>
    /\ UNCHANGED <<pvars, cvars, bvars>>

\* place_translations_back(data, all_translations, paths)
PlaceBack ==
    /\ jprog = "nllb" /\ jpc = "translate"
    /\ batch_i >= Len(texts)
    /\ IF \A k \in 1 .. Len(paths) : HandledPath(paths[k])
       THEN /\ data' = place_translations_back(data, all_translations, paths)
            /\ jpc' = "placed"
       ELSE /\ jpc' = "raised"
            /\ UNCHANGED data
    /\ UNCHANGED <<jprog, nvars, evars, mvars, kvars>>
    /\ UNCHANGED <<pvars, cvars, bvars>>

\* json.dump(data, f)
SaveTranslated ==
    /\ jprog = "nllb" /\ jpc = "placed"
    /\ jpc' = "saved"
    /\ UNCHANGED <<jprog, data, nvars, evars, mvars, kvars>>
    /\ UNCHANGED <<pvars, cvars, bvars>>

NllbNext ==
    \/ GatherTexts
    \/ TranslateChunk
    \/ PlaceBack
    \/ SaveTranslated

SpecNllb == NllbInit /\ [][NllbNext]_vars

----------------------------------------------------------------------------
(* main of src/translated/NLLB/main3.py: two threads, one dictionary.       *)

\* the default of batch_size, which main leaves as it is
batch_size == 8

\* gather_texts: the loops of gather_texts_for_translation, each item with
\* its index (counted from 0), its text and its path
gather_texts(d) ==
    LET g == Gather(d)
    IN  [k \in 1 .. Len(g) |-> <<k - 1, g[k].text, g[k].path>>]

\* the threads
Threads == {0, 1}

\* the sublist of a thread: indexed_items[:half] for t0, indexed_items[half:]
\* for t1, half = n_items // 2
Sublist(items, t) ==
    IF t = 0 THEN Take(items, Len(items) \div 2) ELSE Drop(items, Len(items) \div 2)

\* a thread that has not been started
NewThread(sublist) ==
    [pc |-> "new", sublist |-> sublist, i |-> 0, batch_chunk |-> <<>>,
     translations |-> <<>>, k |-> 1]

\* results_dict[orig_idx] = trans
SetItem(dict, key, val) ==
    [x \in DOMAIN dict \cup {key} |-> IF x = key THEN val ELSE dict[x]]

\* join() returns at once, whatever the thread does
JoinedAnyway(t) == TRUE

\* join() returns when the thread has ended
Joined(t) == thread[t].pc = "finished"

\* place_translations: the loop over indexed_items, from k on
RECURSIVE PlaceItemsFrom(_, _, _, _)
PlaceItemsFrom(d, items, final_translations, k) ==
    IF k > Len(items) THEN d
    ELSE PlaceItemsFrom(PlaceOne(d, GetOr(final_translations, items[k][1], ""), items[k][3]),
                        items, final_translations, k + 1)

place_translations(d, items, final_translations) ==
    PlaceItemsFrom(d, items, final_translations, 1)

Main3Init ==
    /\ ParserIdle
    /\ ChunkIdle
    /\ BatchIdle
    /\ jprog = "main3"
    /\ jpc = "gather"
    /\ data \in TranslateFiles
    /\ Main3Idle
    /\ EmbedIdle
    /\ NllbIdle
    /\ MarianIdle

\* main, from gather_texts to the creation of the two threads
GatherAndSplit ==
    /\ jprog = "main3" /\ jpc = "gather"
    /\ indexed_items' = gather_texts(data)
    /\ translations_dict' = <<>>
    /\ thread' = [t \in Threads |-> NewThread(Sublist(gather_texts(data), t))]
    /\ jpc' = "start0"
    /\ UNCHANGED <<jprog, data, evars, nvars, kvars>>
    /\ UNCHANGED <<pvars, cvars, bvars>>

\* t0.start(), then t1.start()
StartThread ==
    /\ jprog = "main3" /\ jpc \in {"start0", "start1"}
    /\ LET t == IF jpc = "start0" THEN 0 ELSE 1
       IN  thread' = [thread EXCEPT ![t].pc = "batch"]
    /\ jpc' = IF jpc = "start0" THEN "start1" ELSE "join0"
    /\ UNCHANGED <<jprog, data, indexed_items, translations_dict, evars, nvars, kvars>>
    /\ UNCHANGED <<pvars, cvars, bvars>>

\* translate_sublist, one turn of the for loop up to batch_decode
TranslateBatch(t) ==
    /\ jprog = "main3" /\ t \in DOMAIN thread /\ thread[t].pc = "batch"
    /\ thread[t].i < Len(thread[t].sublist)
    /\ LET batch_chunk == Slice(thread[t].sublist, thread[t].i, batch_size)
           raw_texts   == [k \in 1 .. Len(batch_chunk) |-> batch_chunk[k][2]]
       IN  thread' = [thread EXCEPT ![t].batch_chunk = batch_chunk,
                                    ![t].translations = translate_batch(raw_texts),
                                    ![t].k = 1,
                                    ![t].pc = "store"]
    /\ UNCHANGED <<jvars, indexed_items, translations_dict, evars, nvars, kvars>>
    /\ UNCHANGED <<pvars, cvars, bvars>>

\* translate_sublist, one turn of the loop over zip(batch_chunk, translations)
StoreResult(t) ==
    /\ jprog = "main3" /\ t \in DOMAIN thread /\ thread[t].pc = "store"
    /\ LET k    == thread[t].k
           last == k >= Min(Len(thread[t].batch_chunk), Len(thread[t].translations))
       IN  /\ translations_dict' =
                  SetItem(translations_dict, thread[t].batch_chunk[k][1], thread[t].translations[k])
           /\ thread' = [thread EXCEPT ![t].k = k + 1,
                                       ![t].i = IF last THEN @ + batch_size ELSE @,
                                       ![t].pc = IF last THEN "batch" ELSE "store"]
    /\ UNCHANGED <<jvars, indexed_items, evars, nvars, kvars>>
    /\ UNCHANGED <<pvars, cvars, bvars>>

\* translate_sublist returns and the thread ends
EndThread(t) ==
    /\ jprog = "main3" /\ t \in DOMAIN thread /\ thread[t].pc = "batch"
    /\ thread[t].i >= Len(thread[t].sublist)
    /\ thread' = [thread EXCEPT ![t].pc = "finished"]
    /\ UNCHANGED <<jvars, indexed_items, translations_dict, evars, nvars, kvars>>
    /\ UNCHANGED <<pvars, cvars, bvars>>

\* t0.join(), then t1.join()
JoinThread ==
    /\ jprog = "main3" /\ jpc \in {"join0", "join1"}
    /\ Joined(IF jpc = "join0" THEN 0 ELSE 1)
    /\ jpc' = IF jpc = "join0" THEN "join1" ELSE "place"
    /\ UNCHANGED <<jprog, data, mvars, evars, nvars, kvars>>
    /\ UNCHANGED <<pvars, cvars, bvars>>

\* place_translations(data, indexed_items, translations_dict)
PlaceTranslations ==
    /\ jprog = "main3" /\ jpc = "place"
    /\ IF \A k \in 1 .. Len(indexed_items) : HandledPath(indexed_items[k][3])
       THEN /\ data' = place_translations(data, indexed_items, translations_dict)
            /\ jpc' = "placed"
       ELSE /\ jpc' = "raised"
            /\ UNCHANGED data
    /\ UNCHANGED <<jprog, mvars, evars, nvars, kvars>>
    /\ UNCHANGED <<pvars, cvars, bvars>>

\* json.dump(data, f)
SaveMain3 ==
    /\ jprog = "main3" /\ jpc = "placed"
    /\ jpc' = "saved"
    /\ UNCHANGED <<jprog, data, mvars, evars, nvars, kvars>>
    /\ UNCHANGED <<pvars, cvars, bvars>>

Main3Next ==
    \/ GatherAndSplit
    \/ StartThread
    \/ \E t \in Threads : TranslateBatch(t)
    \/ \E t \in Threads : StoreResult(t)
    \/ \E t \in Threads : EndThread(t)
    \/ JoinThread
    \/ PlaceTranslations
    \/ SaveMain3

SpecMain3 == Main3Init /\ [][Main3Next]_vars

----------------------------------------------------------------------------
(* translate_json_marian of src/translated/Marian/main.py.                  *)

\* batch_size of translate_text_marian
MarianBatchSize == 16

\* translate_text_marian: the batches texts[i:i+batch_size], from i on
RECURSIVE MarianFrom(_, _)
MarianFrom(ts, i) ==
    IF i >= Len(ts) THEN <<>>
    ELSE translate_batch(Slice(ts, i, MarianBatchSize)) \o MarianFrom(ts, i + MarianBatchSize)

translate_text_marian(ts) == MarianFrom(ts, 0)

\* the text fields, which name the seven lists
MarianFields == DOMAIN EnName

\* document_titles: the title of every document, "" for a document that
\* has none
DocumentTitles(d) ==
    LET docs == GetOr(d, "documents", <<>>)
    IN  [i \in 1 .. Len(docs) |-> GetOr(docs[i], "document_title", "")]

\* article_titles .. subsubitem_texts: the texts of one field that are not
\* empty, in the order of the loops
FieldTexts(d, f) ==
    LET g  == Gather(d)
        of == SelectSeq(g, LAMBDA it : it.path[1] = EnName[f])
    IN  [k \in 1 .. Len(of) |-> of[k].text]

\* the assignment loops, from the k-th non-empty text field on; idxs holds
\* doc_idx, art_title_idx, .. subsubitem_text_idx
RECURSIVE AssignFrom(_, _, _, _, _)
AssignFrom(d, g, trans, idxs, k) ==
    IF k > Len(g) THEN [data |-> d, counters |-> idxs]
    ELSE LET f == CHOOSE x \in MarianFields : EnName[x] = g[k].path[1]
         IN  AssignFrom(PlaceOne(d, trans[f][idxs[f] + 1], g[k].path), g, trans,
                        [idxs EXCEPT ![f] = @ + 1], k + 1)

\* the files of SpecNllb, and one of seventeen documents with a title, which
\* takes two batches
MarianFiles == TranslateFiles \cup { [documents |-> [i \in 1 .. 17 |-> FlatDoc]] }

MarianInit ==
    /\ ParserIdle
    /\ ChunkIdle
    /\ BatchIdle
    /\ jprog = "marian"
    /\ jpc = "collect"
    /\ data \in MarianFiles
    /\ MarianIdle
    /\ EmbedIdle
    /\ NllbIdle
    /\ Main3Idle

\* the seven lists are filled
CollectTexts ==
    /\ jprog = "marian" /\ jpc = "collect"
    /\ collected' = [f \in MarianFields |->
                        IF f = "document_title" THEN DocumentTitles(data)
                        ELSE FieldTexts(data, f)]
    /\ jpc' = "translate"
    /\ UNCHANGED <<jprog, data, translated, counters, evars, nvars, mvars>>
    /\ UNCHANGED <<pvars, cvars, bvars>>

\* the seven calls of translate_text_marian
TranslateLists ==
    /\ jprog = "marian" /\ jpc = "translate"
    /\ translated' = [f \in MarianFields |-> translate_text_marian(collected[f])]
    /\ counters' = [f \in MarianFields |-> 0]
    /\ jpc' = "assign"
    /\ UNCHANGED <<jprog, data, collected, evars, nvars, mvars>>
    /\ UNCHANGED <<pvars, cvars, bvars>>

\* the assignment loops
AssignTranslations ==
    /\ jprog = "marian" /\ jpc = "assign"
    /\ LET after == AssignFrom(data, Gather(data), translated, counters, 1)
       IN  data' = after.data /\ counters' = after.counters
    /\ jpc' = "assigned"
    /\ UNCHANGED <<jprog, collected, translated, evars, nvars, mvars>>
    /\ UNCHANGED <<pvars, cvars, bvars>>

\* json.dump(data, f)
SaveMarian ==
    /\ jprog = "marian" /\ jpc = "assigned"
    /\ jpc' = "saved"
    /\ UNCHANGED <<jprog, data, kvars, evars, nvars, mvars>>
    /\ UNCHANGED <<pvars, cvars, bvars>>

MarianNext ==
    \/ CollectTexts
    \/ TranslateLists
    \/ AssignTranslations
    \/ SaveMarian

SpecMarian == MarianInit /\ [][MarianNext]_vars

----------------------------------------------------------------------------
(* Claims about parse_text_to_structure.                                    *)

\* C1: when the parse returns, every node created during the parse (section,
\* higher level, lower level) is in the returned tree.
C1_NoContentLost == MainDone => TreeBorn(result.sections) = 1 .. born

\* C2: sections, the higher levels of a section and the lower levels of a
\* higher level appear in the order in which they were created (main.py);
\* the articles of main_body appear in the order of their header lines (p.py).
C2_Ordering ==
    /\ Ordered(sections)
    /\ \A sec \in AllSections :
           /\ Ordered(sec.higher_levels)
           /\ \A hl \in Range(sec.higher_levels) : Ordered(hl.lower_levels)
    /\ Truthy(current_higher_level) => Ordered(current_higher_level.lower_levels)
    /\ (pc # "done" /\ Truthy(current_section)) =>
           \A sec \in Range(sections) : sec.born < current_section.born
    /\ (pc # "done" /\ Truthy(current_higher_level) /\ Truthy(current_section)) =>
           \A hl \in Range(current_section.higher_levels) :
               hl.born < current_higher_level.born
    /\ Ordered(main_body)
    /\ (pc # "done" /\ Truthy(current_article)) =>
           \A a \in Range(main_body) : a.born < current_article.born
    /\ (pc = "done" /\ prog = "main") => result.sections = sections
    /\ (pc = "done" /\ prog = "p") => result.main_body = main_body

\* C2 witness: a returned tree with two sections, one of them with two
\* higher levels.
C2_Witness ==
    /\ MainDone
    /\ Len(result.sections) >= 2
    /\ \E sec \in Range(result.sections) : Len(sec.higher_levels) >= 2

\* C3: every higher level in a section was created under that section's
\* header: none created before a header line is a child of the section that
\* header starts.
C3_Ownership ==
    \A sec \in AllSections : \A hl \in Range(sec.higher_levels) : hl.hdr = sec.hdr

\* the text is the single line g+t: a glyph g, then a non-empty trimmed t
\* with no glyph, no digit, no newline and no marker
GlyphLine(t) ==
    /\ Len(t) >= 2
    /\ t[1] \in VALID_HIGHER_ENUMS
    /\ \A i \in 2 .. Len(t) : t[i] \notin VALID_HIGHER_ENUMS /\ ~IsDigitChar(t[i]) /\ t[i] # Ch.nl
    /\ Strip(Tail(t)) = Tail(t)
    /\ ~Contains(t, MarkerA) /\ ~Contains(t, MarkerB)

\* C4: parsing the single line g+t gives exactly one higher level in the
\* returned tree, with level g and content t.
C4_ClosedSetCoverage ==
    (MainDone /\ GlyphLine(text)) =>
        /\ Cardinality(HigherLevelsOf(result.sections)) = 1
        /\ \A hl \in HigherLevelsOf(result.sections) :
               hl.level = <<text[1]>> /\ hl.content = Tail(text)

\* C5: parsing "1. foo" gives exactly one higher level, with empty level,
\* holding exactly one lower level with sublevel "1" and content "foo".
C5_VirtualParagraph ==
    (MainDone /\ text = <<49, 46, 32, 102, 111, 111>>) =>
        /\ Cardinality(HigherLevelsOf(result.sections)) = 1
        /\ \A hl \in HigherLevelsOf(result.sections) :
               /\ hl.level = <<>>
               /\ Len(hl.lower_levels) = 1
               /\ hl.lower_levels[1].sublevel = <<49>>
               /\ hl.lower_levels[1].content = <<102, 111, 111>>

\* C6: the end-to-end scenario gives one section, number "6조" and title
\* "보안과제", with two higher levels: "①" with exactly one lower level "1"
\* whose text starts with "전파금지", and "②" with text "교육 실시" and no
\* lower level.  Texts are compared after trimming.
C6_Scenario ==
    (MainDone /\ text = ScenarioText) =>
        /\ Len(result.sections) = 1
        /\ section_pattern(result.sections[1].title).number = <<54, 51312>>
        /\ section_pattern(result.sections[1].title).title = <<48372, 50504, 44284, 51228>>
        /\ Len(result.sections[1].higher_levels) = 2
        /\ LET h1 == result.sections[1].higher_levels[1]
               h2 == result.sections[1].higher_levels[2]
           IN  /\ h1.level = <<9312>>
               /\ Len(h1.lower_levels) = 1
               /\ h1.lower_levels[1].sublevel = <<49>>
               /\ StartsWith(Strip(h1.lower_levels[1].content), <<51204, 54028, 44552, 51648>>)
               /\ h2.level = <<9313>>
               /\ Strip(h2.content) = <<44368, 50977, 32, 49892, 49884>>
               /\ h2.lower_levels = <<>>

\* a turn of the while loop of process_remainder that takes branch C (content)
ContentTurn ==
    /\ prog = "main" /\ pc = "rem"
    /\ ~is_higher_level_enum(remainder_text)
    /\ lower_level_match(remainder_text) = 0

\* the text a content turn places: the text at hand up to the first glyph
\* of VALID_HIGHER_ENUMS in it, trimmed
C7_Chunk ==
    LET cut == { i \in 1 .. Len(remainder_text) : remainder_text[i] \in VALID_HIGHER_ENUMS }
    IN  IF cut = {} THEN Strip(remainder_text)
        ELSE Strip(SubSeq(remainder_text, 1, (CHOOSE i \in cut : \A j \in cut : i <= j) - 1))

C8_Noise(line) ==
    \/ Contains(line, MarkerA) \/ Contains(line, MarkerB)
    \/ (Strip(line) # <<>> /\ \A i \in 1 .. Len(Strip(line)) : IsDigitChar(Strip(line)[i]))

\* the title and content fields of the tree under construction
TextFields ==
    { sec.title : sec \in AllSections }
    \cup { hl.content : hl \in HigherLevelsOf(sections) }
    \cup (IF Truthy(current_section)
          THEN { hl.content : hl \in Range(current_section.higher_levels) } ELSE {})
    \cup (IF Truthy(current_higher_level) THEN {current_higher_level.content} ELSE {})
    \cup UNION { { it.content : it \in Range(hl.lower_levels) } :
                 hl \in HigherLevelsOf(sections)
                        \cup (IF Truthy(current_section)
                              THEN Range(current_section.higher_levels) ELSE {})
                        \cup (IF Truthy(current_higher_level)
                              THEN {current_higher_level} ELSE {}) }

C9_Measure ==
    LET W == Len(text) + 2
    IN  CASE pc = "start" -> W * (Len(Split(text)) + 1) + 2
          [] pc = "loop"  -> W * (Len(lines) + 1 - idx) + 1
          [] pc = "rem"   -> W * (Len(lines) - idx) + 1 + Len(remainder_text)
          [] OTHER        -> 0

\* C9: no step of the parse raises, every turn of the while loop of
\* process_remainder applies one rule and shortens remainder_text, every step
\* lowers the work left (so the parse ends), and the parse ends with a
\* returned document.
C9_Total ==
    [][/\ pc' \in {"loop", "rem", "done"}
       /\ C9_Measure' < C9_Measure
       /\ (pc = "rem" =>
              /\ remainder_text # <<>>
              /\ Len(remainder_text') < Len(remainder_text)
              /\ pc' \in {"loop", "rem"})
       /\ (pc' = "done" => result' # None)]_vars

\* C9 witness: inside process_remainder after a turn that left text to parse
C9_Witness ==
    /\ prog = "main" /\ pc = "rem"
    /\ Truthy(current_higher_level)
    /\ remainder_text # <<>>

\* length of the longest run of groups "의" digits at the start of s
RECURSIVE SuffixRun(_)
SuffixRun(s) ==
    IF Len(s) >= 2 /\ s[1] = Ch.ui /\ DigitRun(Tail(s)) >= 1
    THEN 1 + DigitRun(Tail(s)) + SuffixRun(Drop(s, 1 + DigitRun(Tail(s))))
    ELSE 0

\* the line is "제" digits "조", any number of groups "의" digits, and a
\* parenthesized title
IsSectionHeader(line) ==
    LET n   == DigitRun(Drop(line, 1))
        g   == SuffixRun(Drop(line, 1 + n + 1))
        opn == 1 + n + 1 + g + 1
    IN  /\ line # <<>> /\ line[1] = Ch.je
        /\ n >= 1
        /\ Len(line) >= opn
        /\ line[1 + n + 1] = Ch.jo
        /\ line[opn] = Ch.lpar
        /\ FirstClose(line, opn) > 0

\* the parser has returned
ParserDone == prog \in {"main", "p"} /\ pc = "done"

\* C13: every line of the form "제" digits "조" with one or more groups
\* "의" digits and a parenthesized title (such as "제6조의2의3(t)") is matched
\* as a header and opens an article: the headers matched are as many as the
\* lines of that form, groups or none.
C13_RepeatableSuffix ==
    ParserDone =>
        hdrs = Cardinality({ i \in 1 .. Len(lines) : IsSectionHeader(Strip(lines[i])) })

\* the nodes without their history fields
PlainItem(it) == [sublevel |-> it.sublevel, content |-> it.content]

PlainHigher(hl) ==
    [level |-> hl.level, content |-> hl.content,
     lower_levels |-> [k \in 1 .. Len(hl.lower_levels) |-> PlainItem(hl.lower_levels[k])]]

PlainSection(sec) ==
    [title |-> sec.title,
     higher_levels |-> [k \in 1 .. Len(sec.higher_levels) |-> PlainHigher(sec.higher_levels[k])]]

PlainArticle(a) ==
    [article_number |-> a.article_number, article_title |-> a.article_title,
     article_text |-> a.article_text]

\* the articles of the returned document, without history fields
PlainResult ==
    IF prog = "main"
    THEN [k \in 1 .. Len(result.sections) |-> PlainSection(result.sections[k])]
    ELSE [k \in 1 .. Len(result.main_body) |-> PlainArticle(result.main_body[k])]

\* C14: a header H with a trailing text T that begins with a Level-1 glyph,
\* on one line, gives the same article as the line H followed by the line T,
\* whatever was parsed before: in a text that ends with the lines "H T", "H",
\* "T" the last two articles are equal.
C14_SameLine ==
    (ParserDone /\ text \in PairTexts) =>
        LET n == Len(PlainResult)
        IN  n >= 2 /\ PlainResult[n - 1] = PlainResult[n]

\* the items of the tree under construction
AllItems ==
    UNION { Range(hl.lower_levels) :
            hl \in HigherLevelsOf(sections)
                   \cup (IF Truthy(current_section)
                         THEN Range(current_section.higher_levels) ELSE {})
                   \cup (IF Truthy(current_higher_level) THEN {current_higher_level} ELSE {}) }

\* C15: with an Item open, a line that starts with a syllable-dot token
\* ("가. b") opens a Subitem under the Item and is not appended to the
\* Item's text: no Item text holds the token.
C15_Level3 ==
    MainDone => \A it \in AllItems : ~Contains(it.content, <<44032, Ch.dot>>)

\* the text has a line "가. b" that arrives with no Item open: it is the
\* first line, or the line before it is a header or "①a"
NoItemOpenCase ==
    text \in { Join(<<LineHangul>>), Join(<<LineHeader, LineGlyph, LineHangul>>) }

\* C16: in the tree returned, and in particular when "가. b" arrived with no
\* Item open, there is no Subitem: the nodes are sections, their higher
\* levels (symbol "" or one glyph of VALID_HIGHER_ENUMS) and the items of
\* those (symbol of digits, no list of children), and none of them is
\* named by a syllable.
C16_NoSubitem ==
    MainDone =>
        \A sec \in Range(result.sections) :
            \A hl \in Range(sec.higher_levels) :
                /\ hl.level = <<>> \/ (Len(hl.level) = 1 /\ hl.level[1] \in VALID_HIGHER_ENUMS)
                /\ \A it \in Range(hl.lower_levels) :
                       /\ DOMAIN it = {"sublevel", "content", "born"}
                       /\ it.sublevel # <<>>
                       /\ DigitRun(it.sublevel) = Len(it.sublevel)

\* "가. b" arrived with no Item open and is in the text of the Paragraph
C16_Witness ==
    /\ MainDone /\ NoItemOpenCase
    /\ \E sec \in Range(result.sections) :
           \E hl \in Range(sec.higher_levels) :
               hl.lower_levels = <<>> /\ Contains(hl.content, LineHangul)

\* the text is free text: it starts with no glyph of VALID_HIGHER_ENUMS and
\* no "N."
FreeText(s) == s # <<>> /\ ~is_higher_level_enum(s) /\ lower_level_match(s) = 0

\* what the line at hand gives to process_remainder: the line, or the text
\* after its header
LineTail ==
    IF section_pattern(CurLine).ok
    THEN Strip(Drop(CurLine, section_pattern(CurLine).end))
    ELSE CurLine

\* C19: a line, or a header's trailing text, that starts with no glyph and
\* no "N." is placed in full, even with a glyph later inside it: while it is
\* being processed the text at hand is all of it, never a rest that was cut
\* off at a glyph.
C19_StartOfLine ==
    (prog = "main" /\ pc = "rem" /\ FreeText(LineTail)) => remainder_text = LineTail

\* s holds "N." after its first character
HasInlineLower(s) == \E i \in 1 .. Len(s) - 1 : lower_level_match(Drop(s, i)) > 0

\* C20: content is cut at the earliest later Level-1 glyph or "N.": no text
\* of the tree holds "N." after other text, and "①a 1. foo" under a header
\* gives the Item "1" with the text "foo".
C20_InlineSplit ==
    MainDone =>
        /\ \A c \in TextFields : ~HasInlineLower(c)
        /\ text = Join(<<LineHeader, LineInline>>) =>
               \E it \in AllItems : it.sublevel = <<49>> /\ Strip(it.content) = <<102, 111, 111>>

\* a turn of process_remainder that matches a Level-1 glyph inside an open
\* section
GlyphTurn ==
    /\ prog = "main" /\ pc = "rem"
    /\ is_higher_level_enum(remainder_text)
    /\ Truthy(current_section)

\* q starts with the elements of pre
IsPrefix(pre, q) == Len(pre) <= Len(q) /\ SubSeq(q, 1, Len(pre)) = pre

\* C21: a Level-1 match inside an open section puts the open higher level,
\* with all its lower levels, at the end of the section's list, where it was
\* not before; the new higher level has the glyph as level and no lower
\* level; free text that follows goes to the content of the new higher
\* level, and a higher level that is in a section's list never changes.
C21_Level1Clears ==
    [][/\ GlyphTurn =>
            /\ current_section'.higher_levels =
                   IF Truthy(current_higher_level)
                   THEN Append(current_section.higher_levels, current_higher_level)
                   ELSE current_section.higher_levels
            /\ Truthy(current_higher_level) =>
                   \A hl \in Range(current_section.higher_levels) :
                       hl.born # current_higher_level.born
            /\ current_higher_level'.level = <<remainder_text[1]>>
            /\ current_higher_level'.content = <<>>
            /\ current_higher_level'.lower_levels = <<>>
       /\ (ContentTurn /\ Truthy(current_higher_level)
              /\ current_higher_level.lower_levels = <<>>) =>
            /\ current_higher_level'.content =
                   current_higher_level.content \o <<Ch.sp>> \o C7_Chunk
            /\ current_higher_level'.lower_levels = <<>>
            /\ current_section' = current_section
       /\ (Truthy(current_section) /\ Truthy(current_section')
              /\ current_section.born = current_section'.born) =>
            IsPrefix(current_section.higher_levels, current_section'.higher_levels)
      ]_vars

\* C21 witness: in an open section the closed higher level has a lower level
\* and the open one, made by a glyph after it, has free text and none
C21_Witness ==
    /\ prog = "main"
    /\ Truthy(current_section) /\ current_section.title # UntitledTitle
    /\ Truthy(current_higher_level)
    /\ \E hl \in Range(current_section.higher_levels) :
           hl.lower_levels # <<>> /\ hl.born < current_higher_level.born
    /\ current_higher_level.level # <<>>
    /\ current_higher_level.lower_levels = <<>>
    /\ current_higher_level.content # <<>>

\* C22: in the tree returned no content of a higher level or of a lower
\* level begins or ends with whitespace.
C22_Trimmed ==
    MainDone =>
        \A hl \in HigherLevelsOf(result.sections) :
            /\ Strip(hl.content) = hl.content
            /\ \A it \in Range(hl.lower_levels) : Strip(it.content) = it.content

\* the text fields under the articles of the returned document
ResultTexts ==
    IF prog = "main"
    THEN { hl.content : hl \in HigherLevelsOf(result.sections) }
         \cup UNION { { it.content : it \in Range(hl.lower_levels) } :
                      hl \in HigherLevelsOf(result.sections) }
    ELSE { a.article_text : a \in Range(result.main_body) }

\* the first line is free text: no header, no glyph, no "N."
FirstLineFree ==
    /\ lines # <<>>
    /\ FreeText(Strip(lines[1]))
    /\ ~(IF prog = "main" THEN section_pattern(Strip(lines[1])).ok
         ELSE SECTION_REGEX(Strip(lines[1])).ok)

\* C23: free text that arrives while no article is open is in the returned
\* tree: the text of a first line that is free text, up to a glyph in it, is
\* part of some text field.
C23_Recoverable ==
    (ParserDone /\ FirstLineFree) =>
        \E c \in ResultTexts : Contains(c, content_part(Strip(lines[1])))

\* a line that is noise: it holds a marker, or after trimming it is made of
\* the decimal digits 0-9 only
C30_Noise(line) ==
    \/ Contains(line, MarkerA) \/ Contains(line, MarkerB)
    \/ (Strip(line) # <<>> /\ DigitRun(Strip(line)) = Len(Strip(line)))

\* C30: the lines that reach the parser are the lines of the text that are
\* no noise; a line that starts with a glyph of VALID_HIGHER_ENUMS and holds
\* no marker, such as "①" or "①2", is among them.
C30_KeepsEnumerators ==
    (prog = "main" /\ pc \in {"loop", "rem", "done"}) =>
        lines = SelectSeq(Split(text), LAMBDA l : ~C30_Noise(l))

----------------------------------------------------------------------------
(* Claims about generate_chunks.                                            *)

\* the rank of a glyph of VALID_HIGHER_ENUMS in enumeration order, 1..35
GlyphOrdinal(g) == IF g <= Ch.c20 THEN g - Ch.c1 + 1 ELSE g - Ch.c21 + 21

\* s ends with suf
EndsWith(s, suf) == Len(s) >= Len(suf) /\ SubSeq(s, Len(s) - Len(suf) + 1, Len(s)) = suf

\* C10: the chunk of a paragraph whose symbol is the n-th glyph of
\* VALID_HIGHER_ENUMS has the id {document_id}.{article_num}.n and the
\* label "n항", for n in 1..35.
C10_GlyphOrdinal ==
    (cpc = "paragraph" /\ pi > 1) =>
        LET symbol == Article.paragraphs[pi - 1].paragraph_symbol
            chunk  == chunks[Len(chunks)]
        IN  (Len(symbol) = 1 /\ symbol[1] \in VALID_HIGHER_ENUMS) =>
                /\ chunk.chunk_id = Doc.document_id \o <<Ch.dot>> \o article_num
                                        \o <<Ch.dot>> \o Str(GlyphOrdinal(symbol[1]))
                /\ EndsWith(chunk.metadata_text,
                            <<Ch.jo>> \o Str(GlyphOrdinal(symbol[1])) \o <<54637>>)

\* the chunk types generate_chunks is to emit for a list of articles: one
\* article chunk per article, followed by one paragraph chunk per paragraph
RECURSIVE ExpectedTypes(_)
ExpectedTypes(articles) ==
    IF articles = <<>> THEN <<>>
    ELSE <<"article">> \o [k \in 1 .. Len(Head(articles).paragraphs) |-> "paragraph"]
             \o ExpectedTypes(Tail(articles))

\* s is {document_id}.{digits} or {document_id}.{digits}.{digits}
IsChunkId(s, docid, parts) ==
    LET pre  == docid \o <<Ch.dot>>
        rest == Drop(s, Len(pre))
        n1   == DigitRun(rest)
        tl   == Drop(rest, n1)
    IN  /\ StartsWith(s, pre)
        /\ n1 > 0
        /\ IF parts = 1 THEN tl = <<>>
           ELSE /\ tl # <<>> /\ tl[1] = Ch.dot
                /\ Len(tl) > 1 /\ DigitRun(Tail(tl)) = Len(tl) - 1

\* C11: generate_chunks never raises; when it returns, the chunks are one
\* article chunk per Article followed by one paragraph chunk per Paragraph,
\* with ids {document_id}.{article digits} and
\* {document_id}.{article digits}.{paragraph ordinal}; a virtual Paragraph
\* (paragraph_symbol "") is among the inputs.
C11_ChunkTotal ==
    /\ cpc # "raised"
    /\ cpc = "done" =>
           /\ [k \in 1 .. Len(chunks) |-> chunks[k].chunk_type] = ExpectedTypes(Doc.main_body)
           /\ \A k \in 1 .. Len(chunks) :
                  IsChunkId(chunks[k].chunk_id, Doc.document_id,
                            IF chunks[k].chunk_type = "article" THEN 1 ELSE 2)

\* the node every chunk is to come from, in the order of ExpectedTypes: the
\* article number, and the paragraph symbol or <<0>> for the article itself
RECURSIVE ChunkNodes(_)
ChunkNodes(articles) ==
    IF articles = <<>> THEN <<>>
    ELSE <<[number |-> Head(articles).article_number, symbol |-> <<0>>]>>
             \o [k \in 1 .. Len(Head(articles).paragraphs) |->
                    [number |-> Head(articles).article_number,
                     symbol |-> Head(articles).paragraphs[k].paragraph_symbol]]
             \o ChunkNodes(Tail(articles))

\* C28: within a document different Articles, and different Paragraphs of
\* an Article, get different chunk_ids: two chunks with the same id come
\* from the same article number and the same paragraph symbol.
C28_UniqueIds ==
    (cpc = "done" /\ Len(chunks) = Len(ChunkNodes(Doc.main_body))) =>
        \A i, j \in 1 .. Len(chunks) :
            chunks[i].chunk_id = chunks[j].chunk_id =>
                ChunkNodes(Doc.main_body)[i] = ChunkNodes(Doc.main_body)[j]

----------------------------------------------------------------------------
(* Claims about the line tests.                                             *)

\* C12: both Level-1 tests accept a line iff its first character is one of
\* the 35 glyphs of VALID_HIGHER_ENUMS; the interpunct is never accepted.
C12_ClosedSet ==
    (prog = "line" /\ pc = "done") =>
        LET glyph == text # <<>> /\ text[1] \in VALID_HIGHER_ENUMS
        IN  /\ result.higher <=> glyph
            /\ result.alt_d <=> glyph
            /\ (text # <<>> /\ text[1] = Interpunct) => ~result.higher /\ ~result.alt_d

----------------------------------------------------------------------------
(* Claims about convert_pdfs_to_json.                                       *)

\* the file a document of the output was made from
DocFile(d) == pdf_files[CHOOSE k \in 1 .. Len(pdf_files) : Str(k) = d.id]

GoodFile(f) ==
    /\ Len(f.file_name) >= 4
    /\ SubSeq(Lower(f.file_name), Len(f.file_name) - 3, Len(f.file_name)) = DotPdf
    /\ f.readable
    /\ \E k \in 1 .. Len(f.pages) : \E c \in Range(f.pages[k]) : ~IsSpace(c)

\* the positions before doc_id of the files that are good
GoodBefore == { k \in 1 .. Len(pdf_files) : k < doc_id /\ GoodFile(pdf_files[k]) }

\* C18: a PDF that cannot be read, or gives no text, gets no entry and does
\* not stop the loop: the documents are those of the good files passed so
\* far, one each and in order, nothing raises, and the output is written
\* only after the last file.
C18_FaultIsolation ==
    doc_id >= 1 =>
        /\ pc # "raised"
        /\ Len(documents) = Cardinality(GoodBefore)
        /\ \A k \in GoodBefore : \E i \in 1 .. Len(documents) : documents[i].id = Str(k)
        /\ \A i, j \in 1 .. Len(documents) :
               i < j => \E k, l \in GoodBefore :
                            k < l /\ documents[i].id = Str(k) /\ documents[j].id = Str(l)
        /\ pc = "saved" => doc_id = Len(pdf_files) + 1

\* a file the reader fails on and a file without text come first, and the
\* third file has its entry
C18_Witness ==
    /\ pc = "saved" /\ Len(pdf_files) = 3
    /\ ~pdf_files[1].readable
    /\ pdf_files[2].readable /\ extract_text_from_pdf(pdf_files[2]) = <<>>
    /\ Len(documents) = 1 /\ documents[1].id = <<51>>

----------------------------------------------------------------------------
(* Claims about split_jomun_list_and_main_text.                             *)

\* the positions of the lines of the text that are the marker once trimmed
MarkerLines == { k \in 1 .. Len(Split(text)) : Strip(Split(text)[k]) = Marker }

\* the first of them
FirstMarker == CHOOSE k \in MarkerLines : \A j \in MarkerLines : k <= j

\* C29: the lines before the first line that is the marker once trimmed are
\* the list part, the lines after it are the main text, in order; the marker
\* line is in neither part, later marker lines stay in the main text; with no
\* marker line the main text is empty and the list part is the whole input.
C29_SplitAtFirstMarker ==
    (prog = "split" /\ pc = "done") =>
        IF MarkerLines = {}
        THEN result.jomun_list_text = text /\ result.main_text = <<>>
        ELSE /\ result.jomun_list_text = Join(SubSeq(Split(text), 1, FirstMarker - 1))
             /\ result.main_text
                    = Join(SubSeq(Split(text), FirstMarker + 1, Len(Split(text))))

\* "a", the marker between blanks, then the marker again: the list part is
\* "a" and the main text is the second marker line
C29_Witness ==
    /\ prog = "split" /\ pc = "done"
    /\ text = Join(<<<<97>>, <<Ch.sp>> \o Marker \o <<Ch.sp>>, Marker>>)
    /\ result.jomun_list_text = <<97>>
    /\ result.main_text = Marker

\* a text without a marker line, split
C29_WitnessNoMarker ==
    /\ prog = "split" /\ pc = "done"
    /\ text = Join(<<<<97>>, <<98>> \o Marker>>)
    /\ result.main_text = <<>>

----------------------------------------------------------------------------
(* Claims about process_single_json.                                        *)

\* chunk_id and content of the k-th chunk of the file, stripped
IdOf(k) == Strip(GetOr(ChunksOf(data)[k], "chunk_id", <<>>))
ContentOf(k) == Strip(GetOr(ChunksOf(data)[k], "content", <<>>))

\* the chunks passed so far that have an id and a content
EmbedValid ==
    { k \in 1 .. Len(ChunksOf(data)) : k < chunk_i /\ IdOf(k) # <<>> /\ ContentOf(k) # <<>> }

\* those of them that are the first of their id
EmbedFirst == { k \in EmbedValid : \A j \in EmbedValid : j < k => IdOf(j) # IdOf(k) }

\* C24: chunk_ids holds the ids of the first occurrences among the chunks
\* with an id and a content, once each and in the order of the file,
\* contents holds their contents at the same positions, and what is returned
\* has one embedding for each of them.
C24_FirstOccurrenceOnly ==
    jprog = "embed" =>
        /\ Len(chunk_ids) = Cardinality(EmbedFirst)
        /\ Len(contents) = Len(chunk_ids)
        /\ \A a, b \in 1 .. Len(chunk_ids) : a # b => chunk_ids[a] # chunk_ids[b]
        /\ \A k \in EmbedFirst :
               LET a == Cardinality({ j \in EmbedFirst : j <= k })
               IN  chunk_ids[a] = IdOf(k) /\ contents[a] = ContentOf(k)
        /\ jpc = "returned" =>
               /\ chunk_i = Len(ChunksOf(data)) + 1
               /\ Len(embeddings) = Len(chunk_ids)
               /\ \A a \in 1 .. Len(contents) : embeddings[a] = [embedding_of |-> contents[a]]
        /\ jpc = "none" => chunk_ids = <<>>

\* "a", then "a " which is the same id once stripped, then "b": two ids and
\* two contents are returned
C24_Witness ==
    /\ jprog = "embed" /\ jpc = "returned"
    /\ Len(ChunksOf(data)) = 3
    /\ EmbedValid = {1, 2, 3}
    /\ IdOf(1) = <<97>> /\ ChunksOf(data)[2].chunk_id = <<97, Ch.sp>> /\ IdOf(3) = <<98>>
    /\ chunk_ids = <<<<97>>, <<98>>>>
    /\ contents = <<<<120>>, <<121>>>>

----------------------------------------------------------------------------
(* Claims about translate_json_in_chunks.                                   *)

\* the node a path leads to, below one node
RECURSIVE Descend(_, _, _)
Descend(node, depth, idxs) ==
    IF idxs = <<>> THEN node
    ELSE Descend(node[ChildKey[depth]][Head(idxs)], depth + 1, Tail(idxs))

\* the node of the file a path names
NodeAt(d, path) == Descend(d.documents[path[2]], 1, SubSeq(path, 3, Len(path)))

\* a node as it is to be after translation: every text field of it that is
\* not empty has its translation beside it, and so below it
RECURSIVE ExpectedNode(_, _)
ExpectedNode(node, depth) ==
    LET ens == { EnName[f] : f \in { g \in DOMAIN node \cap Range(TextKeys[depth]) : node[g] # "" } }
    IN  [k \in DOMAIN node \cup ens |->
            IF k \in ens
            THEN Translate(node[CHOOSE f \in Range(TextKeys[depth]) : EnName[f] = k])
            ELSE IF depth < 6 /\ k = ChildKey[depth]
            THEN [c \in 1 .. Len(node[k]) |-> ExpectedNode(node[k][c], depth + 1)]
            ELSE node[k]]

\* a file as it is to be after translation
Expected(d) ==
    IF "documents" \in DOMAIN d
    THEN [d EXCEPT !.documents = [i \in 1 .. Len(@) |-> ExpectedNode(@[i], 1)]]
    ELSE d

\* C25: the batches are consecutive slices of texts that start at the
\* multiples of chunk_size, so that all_translations holds the translation
\* of texts[k] at position k for every k passed; placing back writes the
\* translation of texts[k] into the field paths[k] names on the node
\* paths[k] leads to, and the file after it is the file before it with, on
\* every node, the translation of each non-empty text field beside it and
\* nothing else changed; no path is refused.
C25_BatchesAndPlacement ==
    [][ jprog = "nllb" =>
          /\ batch_i' \in {batch_i, batch_i + chunk_size}
          /\ batch_i' % chunk_size' = 0
          /\ all_translations' =
                 [k \in 1 .. Min(batch_i', Len(texts')) |-> Translate(texts'[k])]
          /\ jpc' # "raised"
          /\ IF jpc = "translate" /\ jpc' = "placed"
             THEN /\ Len(all_translations) = Len(texts)
                  /\ Len(paths) = Len(texts)
                  /\ \A k \in 1 .. Len(paths) :
                         /\ NodeAt(data', paths[k])[paths[k][1]] = Translate(texts[k])
                         /\ \E f \in DOMAIN NodeAt(data, paths[k]) \cap DOMAIN EnName :
                                /\ EnName[f] = paths[k][1]
                                /\ NodeAt(data, paths[k])[f] = texts[k]
                  /\ data' = Expected(data)
             ELSE data' = data ]_vars

\* an empty title, then the document of every depth, in batches of three:
\* eight texts, three batches, the deepest text translated in place and the
\* empty texts without a translation
C25_Witness ==
    /\ jprog = "nllb" /\ jpc = "saved"
    /\ chunk_size = 3 /\ batch_i = 9 /\ Len(texts) = 8
    /\ Len(data.documents) = 2
    /\ data.documents[1].document_title = ""
    /\ "document_title_en" \notin DOMAIN data.documents[1]
    /\ data.documents[2].document_title_en = Translate("T1")
    /\ LET subs == data.documents[2].main_body[1].paragraphs[1].items[1].subitems[1].subsubitems
       IN  /\ subs[1].subsubitem_text_en = Translate("U1")
           /\ subs[1].subsubitem_text = "U1"
           /\ DOMAIN subs[2] = {"subsubitem_text"}

----------------------------------------------------------------------------
(* Claims about main of main3.py.                                           *)

\* the indices of the sublist of a thread
HalfOf(t) ==
    IF t = 0 THEN 0 .. (Len(indexed_items) \div 2) - 1
    ELSE (Len(indexed_items) \div 2) .. Len(indexed_items) - 1

\* C26: every write to the shared dictionary is made by one thread, adds one
\* key of that thread's half that the dictionary did not have, with the
\* translation of the text of that index, and changes no other entry; once
\* both joins have returned both threads have ended and the dictionary has
\* exactly the gathered indices; the file changes only in place_translations,
\* which runs after the joins and gives every node the translation of its
\* own text.
C26_DisjointWrites ==
    [][ (jprog = "main3" /\ jpc # "gather") =>
          /\ translations_dict' # translations_dict =>
                 \E t \in Threads :
                     /\ thread'[t] # thread[t]
                     /\ \A u \in Threads \ {t} : thread'[u] = thread[u]
                     /\ \E key \in HalfOf(t) \ DOMAIN translations_dict :
                            /\ DOMAIN translations_dict' = DOMAIN translations_dict \cup {key}
                            /\ translations_dict'[key] = Translate(indexed_items[key + 1][2])
                            /\ \A x \in DOMAIN translations_dict :
                                   translations_dict'[x] = translations_dict[x]
          /\ jpc' \in {"place", "placed", "saved"} =>
                 /\ \A t \in Threads : thread'[t].pc = "finished"
                 /\ DOMAIN translations_dict' = 0 .. Len(indexed_items) - 1
          /\ jpc' # "raised"
          /\ IF jpc = "place" /\ jpc' = "placed"
             THEN data' = Expected(data)
             ELSE data' = data ]_vars

\* three documents of every depth: 24 texts, 12 for each thread in batches
\* of 8 and 4, all of them in the dictionary and placed
C26_Witness ==
    /\ jprog = "main3" /\ jpc = "saved"
    /\ Len(indexed_items) = 24
    /\ thread[0].i = 16 /\ thread[1].i = 16
    /\ DOMAIN translations_dict = 0 .. 23
    /\ translations_dict[11] = Translate("P1") /\ translations_dict[12] = Translate("I1")
    /\ data.documents[2].main_body[1].paragraphs[1].paragraph_text_en = Translate("P1")
    /\ data.documents[2].main_body[1].paragraphs[1].items[1].item_text_en = Translate("I1")

\* both threads are in the middle of their first batch and the dictionary
\* has keys of both halves
C26_Interleaved ==
    /\ jprog = "main3" /\ jpc = "join0"
    /\ thread[0].pc = "store" /\ thread[0].k = 3
    /\ thread[1].pc = "store" /\ thread[1].k = 3
    /\ DOMAIN translations_dict = {0, 1, 12, 13}

----------------------------------------------------------------------------
(* Claims about translate_json_marian.                                      *)

\* C27: after the assignment every document with a non-empty document_title
\* has as document_title_en the translation of its own title.
C27_OwnTitle ==
    (jprog = "marian" /\ jpc \in {"assigned", "saved"} /\ "documents" \in DOMAIN data) =>
        \A i \in 1 .. Len(data.documents) :
            GetOr(data.documents[i], "document_title", "") # "" =>
                data.documents[i].document_title_en
                    = Translate(data.documents[i].document_title)

\* the texts of the other six fields do get their own translation: apart
\* from document_title_en the file is as it is to be
C27_OtherFields ==
    (jprog = "marian" /\ jpc \in {"assigned", "saved"} /\ "documents" \in DOMAIN data) =>
        \A i \in 1 .. Len(data.documents) :
            LET doc == data.documents[i]
                exp == ExpectedNode([k \in DOMAIN doc \ {"document_title_en"} |-> doc[k]], 1)
            IN  \A k \in DOMAIN doc \ {"document_title_en"} : doc[k] = exp[k]

====
